---------------------------- MODULE Spec2Model ----------------------------
(***************************************************************************)
(* Verification model of the ROG pool-service front end (App.js):         *)
(*   - the derived-field helpers (getReportFlag, formatCurrency, the       *)
(*     gross-profit expression, ServicesConcluded.filterReports),          *)
(*   - the ReportsDownload component (generateReport / generatePDF),       *)
(*   - the ServiceReports / ServicesConcluded views with their debounced   *)
(*     writes, the requests in flight and the REST backend behind them.    *)
(*                                                                         *)
(* Conventions:                                                            *)
(*   - a nullable JavaScript value is a sequence of length 0 (null /       *)
(*     undefined) or 1 (the value): None and Some(v);                      *)
(*   - a JavaScript number that may be NaN is a record [nan, v];           *)
(*   - a text whose characters matter is a sequence of one-character       *)
(*     strings; a text only compared for equality is a string.             *)
(***************************************************************************)
EXTENDS Integers, Sequences, FiniteSets, TLC

VARIABLES
    \* ---- derived-field helpers: overdue flag --------------------------
    flagReport,      \* the report handed to getReportFlag: [request_date]
    clock,           \* what new Date() returns, in ms since the time origin
    flag,            \* the rendered flag: <<>> before the first render, <<f>> after
    flagAt,          \* the value of new Date() at that render
    overdue,         \* what isReportOverdue returns for the same report at
                     \* that time: <<>> before the first render
    \* ---- derived-field helpers: gross profit ---------------------------
    profitReport,    \* the report rendered: [total_cost, parts_cost] (dollar cents)
    profitShift,     \* an amount added to both operands of a second report
    profitSite,      \* which place rendered it last: "none", "card", "summary", "pdf"
    profitShown,     \* the gross-profit text of the report, None when not rendered
    profitShownShifted,  \* the same for the report with both operands shifted
    \* ---- ServicesConcluded ---------------------------------------------
    scInput,         \* the collection handed to setReports by the last fetch
    scReports,       \* useState reports
    scFiltered,      \* useState filteredReports
    searchClient,    \* useState searchClient: a client name, "" for all clients
    searchEmployee,  \* useState searchEmployee: the text typed, as characters
    \* ---- ReportsDownload -----------------------------------------------
    apiReports,      \* the collection GET /reports answers with
    startDate,       \* useState startDate: None for '', Some(day) for 'YYYY-MM-DD'
    endDate,         \* useState endDate
    selectedClient,  \* useState selectedClient: "", "all" or a client name
    selectedEmployee,    \* useState selectedEmployee: "", "all" or an employee id
    isGenerating,    \* useState isGenerating
    genPc,           \* generateReport: "idle", or "fetching" while the GET is awaited
    genClosure,      \* the state values the running generateReport closed over
    genClicks,       \* clicks on the download button so far
    pdfCalls,        \* the calls of generatePDF: its arguments [reports,
                     \* startDate, endDate] and the closure of the caller
    savedFiles,      \* the documents pdf.save wrote: [name, pages]
    alerts,          \* the texts shown by alert()
    genEscaped,      \* TRUE once an exception left generateReport uncaught
    \* ---- generatePDF, one loop iteration at a time ----------------------
    layN,            \* reports.length
    layI,            \* the loop index i
    layout,          \* [yPosition, reportsPerPage, pages]
    \* ---- the backend and the requests in flight -------------------------
    server,          \* the persisted reports, by id
    net,             \* the axios calls awaited: GETs and PUTs, each with the
                     \* component instance that awaits it
    \* ---- Dashboard and ServiceReports -----------------------------------
    activeTab,       \* Dashboard useState activeTab
    srReports,       \* ServiceReports useState reports
    srFiltered,      \* ServiceReports useState filteredReports
    selectedUserFilter,  \* ServiceReports useState selectedUserFilter
    financialTimeout,    \* window.financialTimeout: the pending timer, or None
    notesTimeout,    \* window.notesTimeout: the pending timer, or None
    userSteps,       \* user actions so far
    \* ---- history kept for the properties --------------------------------
    unflushed,       \* per report and cost field, the last typed value no PUT
                     \* has carried yet
    notesBurst,      \* the current burst of admin-notes edits and its flushes
    lastActive,      \* the last answer fetchReports handled and the working
                     \* set it handed to setReports
    lastCompleted,   \* the same for fetchCompletedReports
    \* ---- the report form of ServiceReports ------------------------------
    photos,          \* useState photos: the payloads, in order
    photoReaders,    \* the FileReaders whose onload has not run yet: the
                     \* payload each will deliver
    photoPicks,      \* file selections made so far
    formAlerts,      \* the texts shown to the user by ServiceReports and
                     \* ServicesConcluded: their alert() calls (the views
                     \* have no error banner)
    \* ---- the browser's timers behind the debounced writes ---------------
    timerTable,      \* the timeouts set and neither run nor cleared: [id,
                     \* class, rid, field, left]
    winFinancial,    \* window.financialTimeout: None while undefined, else
                     \* the id setTimeout returned
    winNotes,        \* window.notesTimeout
    timerCount,      \* ids handed out by setTimeout so far
    \* ---- ServiceReports.getReportPeriod ---------------------------------
    periodReports,   \* filteredReports: the request_date of each, in hours
    browserTz,       \* the UTC offset of the browser's time zone, in hours
    periodLabel,     \* the label rendered, None before the first render
    \* ---- Calendar -------------------------------------------------------
    calReports,      \* the collection GET /reports answers the Calendar with
    monthlyData,     \* useState monthlyData: None for {}, else the profit of
                     \* each day of the selected year
    yearlyTotal,     \* what calculateYearlyTotal() returned at the last render
    \* ---- ServiceReports edit form ---------------------------------------
    editForm,        \* useState description, priority, photos, employeeNotes,
                     \* adminNotes, totalCost, partsCost of the open form
    editRole,        \* user?.role: "admin", "employee", or "none" without user
    putBody          \* the body of the PUT handleUpdateReport sent, None
                     \* before the form is submitted

flagVars == <<flagReport, clock, flag, flagAt, overdue>>
profitVars ==
    <<profitReport, profitShift, profitSite, profitShown, profitShownShifted>>
scVars == <<scInput, scReports, scFiltered, searchClient, searchEmployee>>
genVars ==
    <<apiReports, startDate, endDate, selectedClient, selectedEmployee,
      isGenerating, genPc, genClosure, genClicks, pdfCalls, savedFiles, alerts,
      genEscaped>>
layVars == <<layN, layI, layout>>
appVars ==
    <<server, net, activeTab, srReports, srFiltered, selectedUserFilter,
      financialTimeout, notesTimeout, userSteps, unflushed, notesBurst,
      lastActive, lastCompleted>>

periodVars == <<periodReports, browserTz, periodLabel>>

calVars == <<calReports, monthlyData, yearlyTotal>>

editVars == <<editForm, editRole, putBody>>

formVars == <<photos, photoReaders, photoPicks, formAlerts>>
timerVars == <<timerTable, winFinancial, winNotes, timerCount>>

\* what the actions of one part of the program leave alone: the state of
\* the other parts
FlagFrame == UNCHANGED <<profitVars, scVars, genVars, layVars, appVars, formVars, timerVars,
               periodVars,
               calVars,
               editVars>>
ProfitFrame == UNCHANGED <<flagVars, scVars, genVars, layVars, appVars, formVars, timerVars,
               periodVars,
               calVars,
               editVars>>
FilterFrame == UNCHANGED <<flagVars, profitVars, genVars, layVars, appVars, formVars, timerVars,
               periodVars,
               calVars,
               editVars>>
LayoutFrame == UNCHANGED <<flagVars, profitVars, scVars, genVars, appVars, formVars, timerVars,
               periodVars,
               calVars,
               editVars>>
GenFrame == UNCHANGED <<flagVars, profitVars, scVars, layVars, appVars, formVars, timerVars,
               periodVars,
               calVars,
               editVars>>
AppFrame == UNCHANGED <<flagVars, profitVars, genVars, layVars, formVars, timerVars,
               periodVars,
               calVars,
               editVars>>
TimerFrame ==
    UNCHANGED <<flagVars, profitVars, scVars, genVars, layVars, appVars, formVars,
               periodVars,
               calVars,
               editVars>>
FormFrame == UNCHANGED <<flagVars, profitVars, scVars, genVars, layVars, appVars, timerVars,
               periodVars,
               calVars,
               editVars>>

PeriodFrame ==
    UNCHANGED <<flagVars, profitVars, scVars, genVars, layVars, appVars,
               formVars, timerVars,
               calVars,
               editVars>>

CalFrame ==
    UNCHANGED <<flagVars, profitVars, scVars, genVars, layVars, appVars,
               formVars, timerVars, periodVars,
               editVars>>

EditFrame ==
    UNCHANGED <<flagVars, profitVars, scVars, genVars, layVars, appVars,
               formVars, timerVars, periodVars, calVars>>

None == <<>>
Some(v) == <<v>>
IsNone(x) == x = <<>>
Val(x) == x[1]

(***************************************************************************)
(* JavaScript numbers and dates                                            *)
(***************************************************************************)
NaN == [nan |-> TRUE, v |-> 0]
Num(n) == [nan |-> FALSE, v |-> n]

\* new Date(x): a timestamp text the engine parses gives its instant, any
\* other text gives an Invalid Date, whose numeric value is NaN
NewDate(x) == IF x.parses THEN Num(x.ms) ELSE NaN

\* a - b on numbers (Date operands are converted to their time value)
NumSub(a, b) == IF a.nan \/ b.nan THEN NaN ELSE Num(a.v - b.v)

\* Math.ceil(a / d) for an integer a and a positive integer d
MathCeilDiv(a, d) == IF a.nan THEN NaN ELSE Num(-((-a.v) \div d))

\* a <= n, a >= n: every comparison with NaN is false
NumLE(a, n) == ~a.nan /\ a.v <= n
NumGE(a, n) == ~a.nan /\ a.v >= n

\* 1000 * 60 * 60 * 24
DayMs == 1000 * 60 * 60 * 24

GreenFlag == "green"
RedFlag == "red"
NoFlag == "null"

\* a plausible slip: the first test written with < instead of <=
getReportFlagStrict(report, today) ==
    LET reportDate == NewDate(report.request_date)
        diffTime == NumSub(Num(today), reportDate)
        diffDays == MathCeilDiv(diffTime, DayMs)
    IN  IF ~diffDays.nan /\ diffDays.v < 1 THEN GreenFlag
        ELSE IF NumGE(diffDays, 2) THEN RedFlag
        ELSE NoFlag

getReportFlag(report, today) ==
    LET reportDate == NewDate(report.request_date)
        diffTime == NumSub(Num(today), reportDate)
        diffDays == MathCeilDiv(diffTime, DayMs)
    IN  IF NumLE(diffDays, 1) THEN GreenFlag
        ELSE IF NumGE(diffDays, 2) THEN RedFlag
        ELSE NoFlag

\* a plausible slip: the threshold written with > instead of >=
isReportOverdueAfterTwo(report, today) ==
    LET reportDate == NewDate(report.request_date)
        diffTime == NumSub(Num(today), reportDate)
        diffDays == MathCeilDiv(diffTime, DayMs)
    IN  ~diffDays.nan /\ diffDays.v > 2

isReportOverdue(report, today) ==
    LET reportDate == NewDate(report.request_date)
        diffTime == NumSub(Num(today), reportDate)
        diffDays == MathCeilDiv(diffTime, DayMs)
    IN  NumGE(diffDays, 2)

(***************************************************************************)
(* Specification SpecFlag: a report card is rendered again and again while *)
(* the wall clock advances.                                                *)
(***************************************************************************)
MaxDays == 3
ClockSkews == {-1, 0, 1}
Clocks == {k * DayMs + d : k \in 0..MaxDays, d \in ClockSkews} \ {-1}
RequestDates ==
    {[parses |-> TRUE, ms |-> m] : m \in {0, 1, DayMs - 1, DayMs, DayMs + 1}}
        \cup {[parses |-> FALSE, ms |-> 0]}

FlagInit ==
    /\ flagReport \in {[request_date |-> d] : d \in RequestDates}
    /\ clock \in Clocks
    /\ flag = None
    /\ flagAt = 0
    /\ overdue = None

\* the report card's render: {getReportFlag(report)}; isReportOverdue, which
\* no render calls, is evaluated on the same report at the same time
RenderFlag ==
    /\ flag' = Some(getReportFlag(flagReport, clock))
    /\ flagAt' = clock
    /\ overdue' = Some(isReportOverdue(flagReport, clock))
    /\ UNCHANGED <<flagReport, clock>>
    /\ FlagFrame

\* time passes between two renders
ClockAdvance ==
    /\ \E t \in Clocks : t > clock /\ clock' = t
    /\ UNCHANGED <<flagReport, flag, flagAt, overdue>>
    /\ FlagFrame

FlagNext == RenderFlag \/ ClockAdvance

(***************************************************************************)
(* formatCurrency and the gross-profit expression.  Amounts are whole      *)
(* cents; the text produced is a sequence of characters.                   *)
(***************************************************************************)
DigitChars == <<"0", "1", "2", "3", "4", "5", "6", "7", "8", "9">>
DigitChar(d) == DigitChars[d + 1]

RECURSIVE IntText(_)
IntText(n) ==
    IF n < 10 THEN <<DigitChar(n)>>
    ELSE IntText(n \div 10) \o <<DigitChar(n % 10)>>

\* the integer part with en-US grouping: 1234567 -> 1,234,567
RECURSIVE GroupedText(_)
GroupedText(n) ==
    IF n < 1000 THEN IntText(n)
    ELSE GroupedText(n \div 1000) \o <<",">>
            \o <<DigitChar((n % 1000) \div 100), DigitChar((n % 100) \div 10),
                 DigitChar(n % 10)>>

\* x || 0 on a nullable amount: null, undefined and 0 all give 0
OrZero(x) == IF IsNone(x) \/ Val(x) = 0 THEN 0 ELSE Val(x)

\* new Intl.NumberFormat('en-US', {minimumFractionDigits: 2,
\* maximumFractionDigits: 2}).format(amount || 0), amount in cents
formatCurrency(cents) ==
    LET a == IF cents < 0 THEN -cents ELSE cents
    IN  (IF cents < 0 THEN <<"-">> ELSE <<>>)
            \o GroupedText(a \div 100)
            \o <<".", DigitChar((a % 100) \div 10), DigitChar(a % 10)>>

\* a plausible slip: no profit at all as soon as one operand is absent
GrossProfitEitherAbsent(report) ==
    IF IsNone(report.total_cost) \/ IsNone(report.parts_cost) THEN 0
    ELSE Val(report.total_cost) - Val(report.parts_cost)

\* (report.total_cost || 0) - (report.parts_cost || 0)
GrossProfit(report) == OrZero(report.total_cost) - OrZero(report.parts_cost)

\* ServiceReports card, admin controls: the read-only Gross Profit input
CardProfitText(report) == Some(formatCurrency(GrossProfit(report)))

\* ServicesConcluded card: the Financial Summary block is rendered when
\* report.total_cost > 0 || report.parts_cost > 0 (null > 0 is false)
SummaryProfitText(report) ==
    IF (~IsNone(report.total_cost) /\ Val(report.total_cost) > 0)
            \/ (~IsNone(report.parts_cost) /\ Val(report.parts_cost) > 0)
    THEN Some(formatCurrency(GrossProfit(report)))
    ELSE None

\* generatePDF: the financial column is drawn when
\* report.total_cost || report.parts_cost
PdfProfitText(report) ==
    IF OrZero(report.total_cost) # 0 \/ OrZero(report.parts_cost) # 0
    THEN Some(formatCurrency(GrossProfit(report)))
    ELSE None

(***************************************************************************)
(* Specification SpecProfit: one report, and the report with the same      *)
(* amount added to both operands, rendered at the three places that show   *)
(* a gross profit.                                                         *)
(***************************************************************************)
CostCents == {-250, 0, 1, 50, 99950, 100000, 123456}
ShiftCents == {0, 50, 100000}
Amounts == {None} \cup {Some(c) : c \in CostCents}

\* the report with k cents added to both operands (an absent operand counts 0)
Shifted(report, k) ==
    [total_cost |-> Some(OrZero(report.total_cost) + k),
     parts_cost |-> Some(OrZero(report.parts_cost) + k)]

ProfitInit ==
    /\ profitReport \in [total_cost : Amounts, parts_cost : Amounts]
    /\ profitShift \in ShiftCents
    /\ profitSite = "none"
    /\ profitShown = None
    /\ profitShownShifted = None

RenderCard ==
    /\ profitSite' = "card"
    /\ profitShown' = CardProfitText(profitReport)
    /\ profitShownShifted' = CardProfitText(Shifted(profitReport, profitShift))
    /\ UNCHANGED <<profitReport, profitShift>>
    /\ ProfitFrame

RenderSummary ==
    /\ profitSite' = "summary"
    /\ profitShown' = SummaryProfitText(profitReport)
    /\ profitShownShifted' = SummaryProfitText(Shifted(profitReport, profitShift))
    /\ UNCHANGED <<profitReport, profitShift>>
    /\ ProfitFrame

RenderPdfColumn ==
    /\ profitSite' = "pdf"
    /\ profitShown' = PdfProfitText(profitReport)
    /\ profitShownShifted' = PdfProfitText(Shifted(profitReport, profitShift))
    /\ UNCHANGED <<profitReport, profitShift>>
    /\ ProfitFrame

ProfitNext == RenderCard \/ RenderSummary \/ RenderPdfColumn

(***************************************************************************)
(* ServicesConcluded.filterReports                                         *)
(***************************************************************************)
\* Array.prototype.filter: a new array, elements kept in index order
ArrayFilter(arr, P(_)) ==
    LET F[i \in 0..Len(arr)] ==
            IF i = 0 THEN <<>>
            ELSE IF P(arr[i]) THEN Append(F[i - 1], arr[i]) ELSE F[i - 1]
    IN  F[Len(arr)]

\* String.prototype.toLowerCase on the letters of the model's alphabet
LowerChar(c) ==
    CASE c = "J" -> "j"
      [] c = "O" -> "o"
      [] c = "H" -> "h"
      [] OTHER -> c
toLowerCase(s) == [i \in 1..Len(s) |-> LowerChar(s[i])]

\* String.prototype.includes
includes(s, t) ==
    \E i \in 1..(Len(s) - Len(t) + 1) : SubSeq(s, i, i + Len(t) - 1) = t

\* a plausible slip: the search text is not lower-cased
SC_filterReportsCaseSlip(reports, client, employee) ==
    LET byClient ==
            IF client # ""
            THEN ArrayFilter(reports, LAMBDA r : r.client_name = client)
            ELSE reports
    IN  IF employee # <<>>
        THEN ArrayFilter(byClient,
                 LAMBDA r : includes(toLowerCase(r.employee_name), employee))
        ELSE byClient

\* the value filterReports hands to setFilteredReports
SC_filterReports(reports, client, employee) ==
    LET byClient ==
            IF client # ""
            THEN ArrayFilter(reports, LAMBDA r : r.client_name = client)
            ELSE reports
    IN  IF employee # <<>>
        THEN ArrayFilter(byClient,
                 LAMBDA r : includes(toLowerCase(r.employee_name),
                                     toLowerCase(employee)))
        ELSE byClient

(***************************************************************************)
(* Specification SpecFilter: the Completed view after its fetch, with the  *)
(* client select and the employee search box being changed.                *)
(***************************************************************************)
MaxFilterReports == 2
ClientNames == {"Smith Pool", "Smith Pools"}
EmployeeNames == {<<"J", "o">>, <<"j", "O", "h">>, <<"o", "J">>, <<"H">>}
EmployeeSearches == {<<>>, <<"j", "o">>, <<"J", "O">>, <<"o">>, <<"O", "j">>, <<"h">>}
FilterReportRecords == [client_name : ClientNames, employee_name : EmployeeNames]
FilterCollections ==
    UNION {[1..n -> FilterReportRecords] : n \in 0..MaxFilterReports}

FilterInit ==
    /\ scInput \in FilterCollections
    /\ scReports = scInput
    /\ searchClient = ""
    /\ searchEmployee = <<>>
    /\ scFiltered = SC_filterReports(scReports, searchClient, searchEmployee)

\* the client select's onChange, and the effect on [reports, searchClient,
\* searchEmployee] that runs filterReports
SetSearchClient ==
    \E c \in ClientNames \cup {""} :
        /\ c # searchClient
        /\ searchClient' = c
        /\ scFiltered' = SC_filterReports(scReports, c, searchEmployee)
        /\ UNCHANGED <<scInput, scReports, searchEmployee>>
        /\ FilterFrame

\* the employee search box's onChange, and the same effect
SetSearchEmployee ==
    \E t \in EmployeeSearches :
        /\ t # searchEmployee
        /\ searchEmployee' = t
        /\ scFiltered' = SC_filterReports(scReports, searchClient, t)
        /\ UNCHANGED <<scInput, scReports, searchClient>>
        /\ FilterFrame

FilterNext == SetSearchClient \/ SetSearchEmployee

(***************************************************************************)
(* generatePDF: the page-break test and the cursor arithmetic (mm on an    *)
(* A4 portrait page).                                                      *)
(***************************************************************************)
\* pdf.internal.pageSize.getHeight() of new jsPDF('p', 'mm', 'a4'): 297 mm
\* (841.89 pt, 297.00008 mm; the cursor only takes whole values, so the
\* test yPosition > pageHeight - 100 is the test yPosition > 197)
PageHeight == 297
maxReportsPerPage == 3
containerHeight == 85
FirstPageTop == 45
NextPageTop == 20

Max2(a, b) == IF a >= b THEN a ELSE b

\* the state of the loop before the first report: one page, the cursor
\* under the banner
LayoutStart == [yPosition |-> FirstPageTop, reportsPerPage |-> 0, pages |-> <<<<>>>>]

\* "Check if we need a new page"
NeedsNewPage(st) ==
    st.reportsPerPage >= maxReportsPerPage \/ st.yPosition > PageHeight - 100

\* a plausible slip: the break test looks at the per-page counter alone
PageBreakCountOnly(st) ==
    IF st.reportsPerPage >= maxReportsPerPage
    THEN [yPosition |-> NextPageTop, reportsPerPage |-> 0,
          pages |-> Append(st.pages, <<>>)]
    ELSE st

\* pdf.addPage(); yPosition = 20; reportsPerPage = 0
PageBreak(st) ==
    IF NeedsNewPage(st)
    THEN [yPosition |-> NextPageTop, reportsPerPage |-> 0,
          pages |-> Append(st.pages, <<>>)]
    ELSE st

\* how far the cursor moves inside one container: the title band, the two
\* columns (three left rows, three right rows when a cost is present), the
\* description (report.descLines is the length of splitTextToSize's
\* result) and the notes
CursorAdvance(report) ==
    LET afterTitle == 15
        leftY == afterTitle + 7 * 3
        rightY ==
            IF OrZero(report.total_cost) # 0 \/ OrZero(report.parts_cost) # 0
            THEN afterTitle + 7 * 3
            ELSE afterTitle
        description == Max2(leftY, rightY) + 3
        afterDescription ==
            description + (IF report.descLines > 2 THEN 18 ELSE 12)
        afterAdmin ==
            afterDescription + (IF report.admin_notes # "" THEN 6 ELSE 0)
    IN  afterAdmin + (IF report.employee_notes # "" THEN 6 ELSE 0)

\* one iteration of the loop over reports: report number n (i + 1) is drawn
\* on the current page, its rectangle at yPosition - 5
\* a plausible slip: the advance after a container forgets its height
PlaceReportNoHeight(st, report, n) ==
    LET at == PageBreak(st)
        page == Len(at.pages)
        box == [n |-> n, top |-> at.yPosition - 5, height |-> containerHeight]
    IN  [yPosition |-> at.yPosition + CursorAdvance(report) + 10,
         reportsPerPage |-> at.reportsPerPage + 1,
         pages |-> [at.pages EXCEPT ![page] = Append(@, box)]]

PlaceReport(st, report, n) ==
    LET at == PageBreak(st)
        page == Len(at.pages)
        box == [n |-> n, top |-> at.yPosition - 5, height |-> containerHeight]
    IN  [yPosition |-> at.yPosition + CursorAdvance(report) + containerHeight + 10,
         reportsPerPage |-> at.reportsPerPage + 1,
         pages |-> [at.pages EXCEPT ![page] = Append(@, box)]]

\* the whole loop
generatePDFPages(reports) ==
    LET F[i \in 0..Len(reports)] ==
            IF i = 0 THEN LayoutStart ELSE PlaceReport(F[i - 1], reports[i], i)
    IN  F[Len(reports)].pages

(***************************************************************************)
(* Specification SpecLayout: generatePDF's loop, one report per step.  The *)
(* reports of the input sequence are drawn when the loop reaches them.     *)
(***************************************************************************)
MaxLayoutReports == 7
LayoutReports ==
    [total_cost : {None, Some(100)}, parts_cost : {None},
     descLines : {1, 3}, admin_notes : {"", "a"}, employee_notes : {"", "e"}]

LayoutInit ==
    /\ layN \in 1..MaxLayoutReports
    /\ layI = 0
    /\ layout = LayoutStart

LayoutPlace ==
    /\ layI < layN
    /\ \E report \in LayoutReports :
            layout' = PlaceReport(layout, report, layI + 1)
    /\ layI' = layI + 1
    /\ UNCHANGED layN
    /\ LayoutFrame

LayoutNext == LayoutPlace

(***************************************************************************)
(* ReportsDownload.generateReport                                          *)
(***************************************************************************)
TicksPerDay == 2

\* new Date('YYYY-MM-DD'): the instant at which that day starts
DateOfDay(day) == day * TicksPerDay

\* report.completion_date || report.request_date, as an instant
EffectiveDate(report) ==
    IF IsNone(report.completion_date) THEN report.request_date
    ELSE Val(report.completion_date)

\* a plausible slip: the end bound taken as the whole end day
InDateRangeWholeEndDay(report, start, end) ==
    /\ report.status = "completed"
    /\ EffectiveDate(report) >= DateOfDay(start)
    /\ EffectiveDate(report) < DateOfDay(end + 1)

\* a plausible slip: the end bound compared with < instead of <=
InDateRangeOpenEnd(report, start, end) ==
    /\ report.status = "completed"
    /\ EffectiveDate(report) >= DateOfDay(start)
    /\ EffectiveDate(report) < DateOfDay(end)

\* the callback of allReports.filter
InDateRange(report, start, end) ==
    /\ report.status = "completed"
    /\ EffectiveDate(report) >= DateOfDay(start)
    /\ EffectiveDate(report) <= DateOfDay(end)

\* the sequence generateReport narrows allReports to
FilterForPdf(all, c) ==
    LET byDate ==
            ArrayFilter(all,
                LAMBDA r : InDateRange(r, Val(c.startDate), Val(c.endDate)))
        byClient ==
            IF c.selectedClient # "" /\ c.selectedClient # "all"
            THEN ArrayFilter(byDate, LAMBDA r : r.client_name = c.selectedClient)
            ELSE byDate
    IN  IF c.selectedEmployee # "" /\ c.selectedEmployee # "all"
        THEN ArrayFilter(byClient, LAMBDA r : r.employee_id = c.selectedEmployee)
        ELSE byClient

\* generatePDF: the photos of a container.  A payload is "ok" or "bad", a
\* bad one being a payload pdf.addImage throws on.
maxPhotos == 4
Min2(a, b) == IF a <= b THEN a ELSE b

\* the values of j in the photo loop
PhotoSlots(report) == 1..Min2(Len(report.photos), maxPhotos)

addImageThrows(photoData) == photoData = "bad"

\* a plausible slip: one try around the whole loop, so that the first photo
\* that throws ends the loop
DrawnPhotosUntilError(report) ==
    {j \in PhotoSlots(report) :
        \A k \in 1..j : ~addImageThrows(report.photos[k])}

\* the photos embedded: each iteration has its own try, a throw skips the
\* rest of that iteration only
DrawnPhotos(report) ==
    {j \in PhotoSlots(report) : ~addImageThrows(report.photos[j])}

\* console.warn(`Failed to add photo ${j + 1}:`, error)
PhotoWarnings(report) ==
    {j \in PhotoSlots(report) : addImageThrows(report.photos[j])}

\* a plausible slip: rows and columns exchanged
PhotoCellTransposed(j) ==
    [j |-> j, col |-> j \div 2, row |-> j % 2, badge |-> j + 1]

\* iteration j (0-based) of the photo loop: the cell of the 2-column grid
\* the image is placed in and the number written on it
PhotoCell(j) ==
    [j |-> j, col |-> j % 2, row |-> j \div 2, badge |-> j + 1]

\* the images of a container in the order the loop draws them
PhotoImages(report) ==
    LET F[n \in 0..maxPhotos] ==
            IF n = 0 THEN <<>>
            ELSE IF n \in DrawnPhotos(report)
                 THEN Append(F[n - 1], PhotoCell(n - 1))
                 ELSE F[n - 1]
    IN  F[Min2(Len(report.photos), maxPhotos)]

\* the photos section of a container: None when the report has no photos,
\* else the header count, the images and the '+N more' label
PhotoBlock(report) ==
    IF Len(report.photos) = 0 THEN None
    ELSE Some([count |-> Min2(Len(report.photos), maxPhotos),
               images |-> PhotoImages(report),
               more |-> IF Len(report.photos) > maxPhotos
                        THEN Some(Len(report.photos) - maxPhotos)
                        ELSE None])

\* pdf.text(report.priority, ...) throws when the text is not a string: the
\* report has no priority
DrawThrows(report) == report.priority = None

\* generatePDF throws outside the photo loop: its catch logs and rethrows
generatePDFThrows(reports) ==
    \E i \in 1..Len(reports) : DrawThrows(reports[i])

\* `service_reports_${startDate}_to_${endDate}.pdf`
FileName(start, end) == <<"service_reports", start, "to", end, "pdf">>

(***************************************************************************)
(* Specification SpecPDF: the Reports tab.  The form is filled in, the     *)
(* button is clicked, the GET is answered or fails.                        *)
(***************************************************************************)
MaxPdfReports == 2
MaxClicks == 2
PdfDays == {1, 2}
PdfClients == {"A", "B"}
PdfEmployees == {"e1", "e2"}
PdfOwners == {<<"A", "e1">>, <<"A", "e2">>, <<"B", "e1">>}
PdfReport(s, d, o) ==
    [status |-> s, completion_date |-> d[1], request_date |-> d[2],
     client_name |-> o[1], employee_id |-> o[2],
     total_cost |-> None, parts_cost |-> None, descLines |-> 1,
     admin_notes |-> "", employee_notes |-> "",
     priority |-> Some("URGENT"), photos |-> <<>>]
\* completed reports before, at the start of, inside, at the end of and
\* after the date range (with and without a completion date) for the client
\* and employee the form can select, completed reports of another employee
\* and of another client, reports still in progress whose dates fall
\* inside the range, a report with five photos two of which are malformed,
\* a report with three photos, and a report stored without a priority
PdfReportRecords ==
    {PdfReport("completed", d, <<"A", "e1">>) :
        d \in {<<None, 1>>, <<None, 3>>, <<Some(2), 1>>, <<Some(4), 3>>,
               <<Some(5), 3>>}}
    \cup {PdfReport("completed", <<Some(4), 3>>, o) : o \in PdfOwners}
    \cup {PdfReport("in_progress", d, <<"A", "e1">>) :
        d \in {<<None, 3>>, <<Some(4), 3>>}}
    \cup {[PdfReport("completed", <<None, 3>>, <<"A", "e1">>)
                EXCEPT !.photos = <<"ok", "bad", "ok", "ok", "bad">>],
           [PdfReport("completed", <<None, 3>>, <<"A", "e1">>)
                EXCEPT !.photos = <<"ok", "ok", "ok">>],
           [PdfReport("completed", <<None, 3>>, <<"A", "e1">>)
                EXCEPT !.priority = None]}
PdfCollections == UNION {[1..n -> PdfReportRecords] : n \in 0..MaxPdfReports}

GenInit ==
    /\ apiReports \in PdfCollections
    /\ startDate = None
    /\ endDate = None
    /\ selectedClient = ""
    /\ selectedEmployee = ""
    /\ isGenerating = FALSE
    /\ genPc = "idle"
    /\ genClosure = None
    /\ genClicks = 0
    /\ pdfCalls = <<>>
    /\ savedFiles = <<>>
    /\ alerts = <<>>
    /\ genEscaped = FALSE

\* the form: the two date inputs and the two selects.  generateReport reads
\* the values of the render in which the button was clicked, so the form is
\* modelled as filled in before the click.
SetStartDate ==
    /\ genPc = "idle" /\ genClicks = 0
    /\ \E d \in PdfDays : startDate = None /\ startDate' = Some(d)
    /\ UNCHANGED <<apiReports, endDate, selectedClient, selectedEmployee,
                   isGenerating, genPc, genClosure, genClicks, pdfCalls,
                   savedFiles, alerts, genEscaped>>
    /\ GenFrame

SetEndDate ==
    /\ genPc = "idle" /\ genClicks = 0
    /\ \E d \in PdfDays : endDate = None /\ endDate' = Some(d)
    /\ UNCHANGED <<apiReports, startDate, selectedClient, selectedEmployee,
                   isGenerating, genPc, genClosure, genClicks, pdfCalls,
                   savedFiles, alerts, genEscaped>>
    /\ GenFrame

SetSelectedClient ==
    /\ genPc = "idle" /\ genClicks = 0
    /\ \E c \in {"all", "A"} : selectedClient = "" /\ selectedClient' = c
    /\ UNCHANGED <<apiReports, startDate, endDate, selectedEmployee,
                   isGenerating, genPc, genClosure, genClicks, pdfCalls,
                   savedFiles, alerts, genEscaped>>
    /\ GenFrame

SetSelectedEmployee ==
    /\ genPc = "idle" /\ genClicks = 0
    /\ \E e \in {"all", "e1"} : selectedEmployee = "" /\ selectedEmployee' = e
    /\ UNCHANGED <<apiReports, startDate, endDate, selectedClient,
                   isGenerating, genPc, genClosure, genClicks, pdfCalls,
                   savedFiles, alerts, genEscaped>>
    /\ GenFrame

\* click with a date missing: alert and return, nothing else touched
GenerateClickInvalid ==
    /\ genPc = "idle" /\ ~isGenerating /\ genClicks < MaxClicks
    /\ IsNone(startDate) \/ IsNone(endDate)
    /\ alerts' = Append(alerts, "Please select both start and end dates")
    /\ genClicks' = genClicks + 1
    /\ UNCHANGED <<apiReports, startDate, endDate, selectedClient,
                   selectedEmployee, isGenerating, genPc, genClosure, pdfCalls,
                   savedFiles, genEscaped>>
    /\ GenFrame

\* click with both dates: setIsGenerating(true), the GET is sent and awaited
GenerateClick ==
    /\ genPc = "idle" /\ ~isGenerating /\ genClicks < MaxClicks
    /\ ~IsNone(startDate) /\ ~IsNone(endDate)
    /\ isGenerating' = TRUE
    /\ genPc' = "fetching"
    /\ genClosure' = Some([startDate |-> startDate, endDate |-> endDate,
                           selectedClient |-> selectedClient,
                           selectedEmployee |-> selectedEmployee])
    /\ genClicks' = genClicks + 1
    /\ UNCHANGED <<apiReports, startDate, endDate, selectedClient,
                   selectedEmployee, pdfCalls, savedFiles, alerts, genEscaped>>
    /\ GenFrame

\* a plausible slip: the early return forgets setIsGenerating(false)
GenerateEmptyKeepsBusy ==
    /\ genPc = "fetching"
    /\ FilterForPdf(apiReports, Val(genClosure)) = <<>>
    /\ alerts' = Append(alerts, "No completed reports found for the selected criteria")
    /\ genPc' = "idle"
    /\ UNCHANGED <<apiReports, startDate, endDate, selectedClient,
                   selectedEmployee, isGenerating, genClosure, genClicks,
                   pdfCalls, savedFiles, genEscaped>>
    /\ GenFrame

\* the GET is answered and nothing passes the filters
GenerateEmpty ==
    /\ genPc = "fetching"
    /\ FilterForPdf(apiReports, Val(genClosure)) = <<>>
    /\ alerts' = Append(alerts, "No completed reports found for the selected criteria")
    /\ isGenerating' = FALSE
    /\ genPc' = "idle"
    /\ UNCHANGED <<apiReports, startDate, endDate, selectedClient,
                   selectedEmployee, genClosure, genClicks, pdfCalls, savedFiles,
                   genEscaped>>
    /\ GenFrame

\* the GET is answered, generatePDF lays the reports out, embeds the photos,
\* stamps the footer on every page and saves the file
GenerateSave ==
    /\ genPc = "fetching"
    /\ LET c == Val(genClosure)
           reports == FilterForPdf(apiReports, c)
           pages == generatePDFPages(reports)
       IN  /\ reports # <<>>
           /\ ~generatePDFThrows(reports)
           /\ pdfCalls' = Append(pdfCalls,
                  [reports |-> reports, startDate |-> Val(c.startDate),
                   endDate |-> Val(c.endDate), closure |-> c])
           /\ savedFiles' = Append(savedFiles,
                  [name |-> FileName(Val(c.startDate), Val(c.endDate)),
                   pages |-> pages,
                   photos |-> [i \in 1..Len(reports) |-> DrawnPhotos(reports[i])],
                   warnings |-> [i \in 1..Len(reports) |-> PhotoWarnings(reports[i])],
                   blocks |-> [i \in 1..Len(reports) |-> PhotoBlock(reports[i])],
                   footers |-> 1..Len(pages),
                   call |-> Len(pdfCalls) + 1])
    /\ isGenerating' = FALSE
    /\ genPc' = "idle"
    /\ UNCHANGED <<apiReports, startDate, endDate, selectedClient,
                   selectedEmployee, genClosure, genClicks, alerts, genEscaped>>
    /\ GenFrame

\* a plausible slip: generatePDF's catch swallows the error
GeneratePdfThrowsSilent ==
    /\ genPc = "fetching"
    /\ LET c == Val(genClosure)
           reports == FilterForPdf(apiReports, c)
       IN  /\ reports # <<>>
           /\ generatePDFThrows(reports)
           /\ pdfCalls' = Append(pdfCalls,
                  [reports |-> reports, startDate |-> Val(c.startDate),
                   endDate |-> Val(c.endDate), closure |-> c])
    /\ isGenerating' = FALSE
    /\ genPc' = "idle"
    /\ UNCHANGED <<apiReports, startDate, endDate, selectedClient,
                   selectedEmployee, genClosure, genClicks, savedFiles, alerts,
                   genEscaped>>
    /\ GenFrame

\* the GET is answered and generatePDF throws while drawing a report: its
\* catch rethrows before pdf.save, generateReport's catch alerts, then
\* setIsGenerating(false)
GeneratePdfThrows ==
    /\ genPc = "fetching"
    /\ LET c == Val(genClosure)
           reports == FilterForPdf(apiReports, c)
       IN  /\ reports # <<>>
           /\ generatePDFThrows(reports)
           /\ pdfCalls' = Append(pdfCalls,
                  [reports |-> reports, startDate |-> Val(c.startDate),
                   endDate |-> Val(c.endDate), closure |-> c])
    /\ alerts' = Append(alerts, "Failed to generate report")
    /\ isGenerating' = FALSE
    /\ genPc' = "idle"
    /\ UNCHANGED <<apiReports, startDate, endDate, selectedClient,
                   selectedEmployee, genClosure, genClicks, savedFiles,
                   genEscaped>>
    /\ GenFrame

\* a plausible slip: setIsGenerating(false) at the end of the try block, so
\* that the catch path leaves the flag set
GenerateGetFailsKeepsBusy ==
    /\ genPc = "fetching"
    /\ alerts' = Append(alerts, "Failed to generate report")
    /\ genPc' = "idle"
    /\ UNCHANGED <<apiReports, startDate, endDate, selectedClient,
                   selectedEmployee, isGenerating, genClosure, genClicks,
                   pdfCalls, savedFiles, genEscaped>>
    /\ GenFrame

\* the GET fails: the catch block alerts, then setIsGenerating(false)
GenerateGetFails ==
    /\ genPc = "fetching"
    /\ alerts' = Append(alerts, "Failed to generate report")
    /\ isGenerating' = FALSE
    /\ genPc' = "idle"
    /\ UNCHANGED <<apiReports, startDate, endDate, selectedClient,
                   selectedEmployee, genClosure, genClicks, pdfCalls, savedFiles,
                   genEscaped>>
    /\ GenFrame

GenNext ==
    \/ SetStartDate
    \/ SetEndDate
    \/ SetSelectedClient
    \/ SetSelectedEmployee
    \/ GenerateClickInvalid
    \/ GenerateClick
    \/ GenerateEmpty
    \/ GenerateSave
    \/ GeneratePdfThrows
    \/ GenerateGetFails

(***************************************************************************)
(* The backend, the Dashboard and the ServiceReports view.                 *)
(***************************************************************************)
RIDs == {1, 2}
MaxUserSteps == 2
MaxInFlight == 2
TickMs == 500
\* the delay of the three setTimeout calls
DebounceDelay == 1000
NoteTexts == {"a", "b"}
CostValues == {5}
Tabs == {"reports", "completed"}
user == [role |-> "admin"]

\* the collection GET /reports answers with: every report, in id order
ServerList == [i \in 1..Cardinality(RIDs) |-> server[i]]

\* PUT /reports/{id}: the fields of the body overwrite the stored ones
Merge(report, body) ==
    [f \in DOMAIN report |-> IF f \in DOMAIN body THEN body[f] ELSE report[f]]

\* a plausible slip: fetchReports keeps every report
ActiveOfUnfiltered(data) == data

\* fetchReports: response.data.filter(report => report.status !== 'completed')
ActiveOf(data) == ArrayFilter(data, LAMBDA r : r.status # "completed")

\* fetchCompletedReports: response.data.filter(report => report.status === 'completed')
CompletedOf(data) == ArrayFilter(data, LAMBDA r : r.status = "completed")

\* ServiceReports.filterReports: the value handed to setFilteredReports
SR_filterReports(reports, userFilter) ==
    IF userFilter # ""
    THEN ArrayFilter(reports, LAMBDA r : r.employee_id = userFilter)
    ELSE reports

\* Dashboard's <main>: which views the current tab renders
Rendered(view) ==
    CASE view = "ServiceReports" -> activeTab = "reports"
      [] view = "ServicesConcluded" -> activeTab = "completed"
      [] view = "ReportsDownload" ->
            activeTab = "reports-download" /\ user.role = "admin"
      [] OTHER -> FALSE

Ids(reports) == {reports[i].id : i \in 1..Len(reports)}
ById(reports, rid) == CHOOSE r \in {reports[i] : i \in 1..Len(reports)} : r.id = rid

\* filteredReports.map(r => r.id === report.id ? {...r, [field]: value} : r)
MapField(reports, rid, field, value) ==
    [i \in 1..Len(reports) |->
        IF reports[i].id = rid THEN [reports[i] EXCEPT ![field] = value]
        ELSE reports[i]]

RemoveAt(q, i) == SubSeq(q, 1, i - 1) \o SubSeq(q, i + 1, Len(q))

Request(kind, owner, rid, body) ==
    [kind |-> kind, phase |-> "request", owner |-> owner, live |-> TRUE,
     rid |-> rid, body |-> body, data |-> <<>>]

PendingTimers ==
    (IF financialTimeout = None THEN 0 ELSE 1) + (IF notesTimeout = None THEN 0 ELSE 1)
TimerDue(t) == t # None /\ Val(t).left <= 0
NoTimerDue == ~TimerDue(financialTimeout) /\ ~TimerDue(notesTimeout)

\* a user action may issue a request, now or when its timer fires
UserMayAct ==
    /\ NoTimerDue
    /\ userSteps < MaxUserSteps
    /\ Len(net) + PendingTimers < MaxInFlight

\* the textarea the pending notes timer read its event from is a controlled
\* input: while it stays in the document each render sets its value to
\* report.admin_notes || '' of the new filteredReports; once its card is no
\* longer rendered the node keeps the value it had
SyncNotesNode(t, filtered) ==
    IF t = None \/ ~Val(t).attached THEN t
    ELSE IF Val(t).rid \in Ids(filtered)
         THEN Some([Val(t) EXCEPT !.value = ById(filtered, Val(t).rid).admin_notes])
         ELSE Some([Val(t) EXCEPT !.attached = FALSE])

\* the burst of notes edits is no longer alone: another field was written
BurstDisturbed ==
    IF notesBurst # None /\ notesTimeout # None
    THEN Some([Val(notesBurst) EXCEPT !.clean = FALSE])
    ELSE notesBurst

InitialServers ==
    {[r \in RIDs |->
        IF r = 1
        THEN [id |-> 1, status |-> "reported", admin_notes |-> "n0",
              total_cost |-> None, parts_cost |-> None,
              completion_date |-> None, employee_id |-> "e1"]
        ELSE [id |-> r, status |-> st[1], admin_notes |-> "",
              total_cost |-> None, parts_cost |-> None,
              completion_date |-> st[2], employee_id |-> "e2"]] :
        st \in {<<"in_progress", None>>, <<"completed", Some(1)>>}}

\* after login: Dashboard shows the reports tab, ServiceReports has mounted
\* and its first fetchReports is awaited
AppInit ==
    /\ server \in InitialServers
    /\ net = <<Request("get", "sr", 0, <<>>)>>
    /\ activeTab = "reports"
    /\ srReports = <<>>
    /\ srFiltered = <<>>
    /\ selectedUserFilter = ""
    /\ financialTimeout = None
    /\ notesTimeout = None
    /\ userSteps = 0
    /\ unflushed = [r \in RIDs |-> [total_cost |-> None, parts_cost |-> None]]
    /\ notesBurst = None
    /\ lastActive = [data |-> <<>>, set |-> <<>>]
    /\ lastCompleted = [data |-> <<>>, set |-> <<>>]
    /\ scInput = <<>>
    /\ scReports = <<>>
    /\ scFiltered = <<>>
    /\ searchClient = ""
    /\ searchEmployee = <<>>

\* the instance that goes away: its state is dropped, what it awaits and
\* its timers live on without it
Orphaned(q, view) ==
    [i \in 1..Len(q) |->
        IF q[i].owner = view THEN [q[i] EXCEPT !.live = FALSE] ELSE q[i]]
\* a plausible slip: an effect cleanup that clears the timers on unmount
OrphanedTimerCleared(t) == None

OrphanedTimer(t) ==
    IF t = None THEN t
    ELSE Some([f \in DOMAIN Val(t) |->
                  IF f \in {"live", "attached"} THEN FALSE ELSE Val(t)[f]])

\* Navigation: setActiveTab(tab).  The view of the old tab unmounts, the
\* view of the new tab mounts and its first effect fetches
SwitchTab ==
    /\ UserMayAct
    /\ \E tab \in Tabs \ {activeTab} :
        LET left == IF activeTab = "reports" THEN "sr"
                    ELSE IF activeTab = "completed" THEN "sc" ELSE "none"
            kept == Orphaned(net, left)
        IN  /\ activeTab' = tab
            /\ net' = IF tab = "reports" THEN Append(kept, Request("get", "sr", 0, <<>>))
                      ELSE IF tab = "completed"
                           THEN Append(kept, Request("get", "sc", 0, <<>>))
                           ELSE kept
            /\ IF left = "sr"
               THEN /\ financialTimeout' = OrphanedTimer(financialTimeout)
                    /\ notesTimeout' = OrphanedTimer(notesTimeout)
               ELSE UNCHANGED <<financialTimeout, notesTimeout>>
    /\ srReports' = <<>>
    /\ srFiltered' = <<>>
    /\ selectedUserFilter' = ""
    /\ scInput' = <<>>
    /\ scReports' = <<>>
    /\ scFiltered' = <<>>
    /\ userSteps' = userSteps + 1
    /\ UNCHANGED <<server, unflushed, notesBurst, lastActive, lastCompleted,
                   searchClient, searchEmployee>>
    /\ AppFrame

\* the employee select of the reports tab, and the effect on [reports,
\* selectedUserFilter] that runs filterReports
SetUserFilter ==
    /\ UserMayAct
    /\ activeTab = "reports"
    /\ \E e \in {"", "e1", "e2"} :
        /\ e # selectedUserFilter
        /\ selectedUserFilter' = e
        /\ srFiltered' = SR_filterReports(srReports, e)
    /\ notesTimeout' = SyncNotesNode(notesTimeout, srFiltered')
    /\ userSteps' = userSteps + 1
    /\ UNCHANGED <<server, net, activeTab, srReports, financialTimeout,
                   unflushed, notesBurst, lastActive, lastCompleted, scVars>>
    /\ AppFrame

\* a status button of a report card: updateReportStatus(report.id, status),
\* up to the awaited PUT
ClickStatus ==
    /\ UserMayAct
    /\ activeTab = "reports" /\ user.role = "admin"
    /\ \E rid \in Ids(srFiltered), status \in {"scheduled", "in_progress", "completed"} :
        net' = Append(net, Request("put", "sr", rid,
                   [status |-> status, admin_notes |-> "", completion_date |-> None]))
    /\ notesBurst' = BurstDisturbed
    /\ userSteps' = userSteps + 1
    /\ UNCHANGED <<server, activeTab, srReports, srFiltered, selectedUserFilter,
                   financialTimeout, notesTimeout, unflushed, lastActive,
                   lastCompleted, scVars>>
    /\ AppFrame

\* onChange of the Estimate / Est. Cost input of a report card
EditCost(field) ==
    /\ UserMayAct \/ (NoTimerDue /\ userSteps < MaxUserSteps /\ financialTimeout # None)
    /\ activeTab = "reports" /\ user.role = "admin"
    /\ \E rid \in Ids(srFiltered), v \in CostValues :
        /\ srFiltered' = MapField(srFiltered, rid, field, Some(v))
        /\ financialTimeout' =
                Some([rid |-> rid, field |-> field, value |-> v,
                      left |-> DebounceDelay, live |-> TRUE, attached |-> TRUE])
        /\ unflushed' = [unflushed EXCEPT ![rid][field] = Some(v)]
    /\ notesBurst' = BurstDisturbed
    /\ userSteps' = userSteps + 1
    /\ UNCHANGED <<server, net, activeTab, srReports, selectedUserFilter,
                   notesTimeout, lastActive, lastCompleted, scVars>>
    /\ AppFrame

EditTotalCost == EditCost("total_cost")
EditPartsCost == EditCost("parts_cost")

\* onChange of the Admin Notes textarea of a report card
EditAdminNotes ==
    /\ UserMayAct \/ (NoTimerDue /\ userSteps < MaxUserSteps /\ notesTimeout # None)
    /\ activeTab = "reports" /\ user.role = "admin"
    /\ \E rid \in Ids(srFiltered), v \in NoteTexts :
        /\ v # ById(srFiltered, rid).admin_notes
        /\ srFiltered' = MapField(srFiltered, rid, "admin_notes", v)
        /\ notesTimeout' =
                Some([rid |-> rid, field |-> "admin_notes", value |-> v,
                      left |-> DebounceDelay, live |-> TRUE, attached |-> TRUE])
        /\ notesBurst' =
                IF notesTimeout # None /\ notesBurst # None
                        /\ Val(notesBurst).rid = rid
                THEN Some([Val(notesBurst) EXCEPT !.last = v, !.n = @ + 1])
                ELSE Some([rid |-> rid, last |-> v, n |-> 1, clean |-> TRUE,
                           puts |-> <<>>])
    /\ userSteps' = userSteps + 1
    /\ UNCHANGED <<server, net, activeTab, srReports, selectedUserFilter,
                   financialTimeout, unflushed, lastActive, lastCompleted, scVars>>
    /\ AppFrame

\* time passes while a timer is pending and none is due
Tick ==
    /\ PendingTimers > 0
    /\ NoTimerDue
    /\ financialTimeout' =
            IF financialTimeout = None THEN None
            ELSE Some([Val(financialTimeout) EXCEPT !.left = @ - TickMs])
    /\ notesTimeout' =
            IF notesTimeout = None THEN None
            ELSE Some([Val(notesTimeout) EXCEPT !.left = @ - TickMs])
    /\ UNCHANGED <<server, net, activeTab, srReports, srFiltered,
                   selectedUserFilter, userSteps, unflushed, notesBurst,
                   lastActive, lastCompleted, scVars>>
    /\ AppFrame

\* the callback of window.financialTimeout: updateFinancialField(report.id,
\* field, value) with the values of the edit, up to the awaited PUT
FireFinancial ==
    /\ TimerDue(financialTimeout)
    /\ LET t == Val(financialTimeout)
       IN  /\ net' = Append(net,
                  [Request("put", "sr", t.rid, [x \in {t.field} |-> Some(t.value)])
                      EXCEPT !.live = t.live])
           /\ unflushed' = [unflushed EXCEPT ![t.rid][t.field] = None]
    /\ financialTimeout' = None
    /\ UNCHANGED <<server, activeTab, srReports, srFiltered, selectedUserFilter,
                   notesTimeout, userSteps, notesBurst, lastActive,
                   lastCompleted, scVars>>
    /\ AppFrame

\* the callback of window.notesTimeout: updateAdminNotes(report.id,
\* e.target.value), the value being read from the textarea when the timer
\* fires, up to the awaited PUT
FireNotes ==
    /\ TimerDue(notesTimeout)
    /\ LET t == Val(notesTimeout)
       IN  /\ net' = Append(net,
                  [Request("put", "sr", t.rid, [admin_notes |-> t.value])
                      EXCEPT !.live = t.live])
           /\ notesBurst' =
                  Some([Val(notesBurst) EXCEPT !.puts = Append(@, t.value)])
    /\ notesTimeout' = None
    /\ UNCHANGED <<server, activeTab, srReports, srFiltered, selectedUserFilter,
                   financialTimeout, userSteps, unflushed, lastActive,
                   lastCompleted, scVars>>
    /\ AppFrame

\* the backend answers a GET with the collection as it is now
ServerGet ==
    /\ NoTimerDue
    /\ \E i \in 1..Len(net) :
        /\ net[i].kind = "get" /\ net[i].phase = "request"
        /\ net' = [net EXCEPT ![i].phase = "response", ![i].data = ServerList]
    /\ UNCHANGED <<server, activeTab, srReports, srFiltered, selectedUserFilter,
                   financialTimeout, notesTimeout, userSteps, unflushed,
                   notesBurst, lastActive, lastCompleted, scVars>>
    /\ AppFrame

\* the backend applies a PUT
ServerPut ==
    /\ NoTimerDue
    /\ \E i \in 1..Len(net) :
        /\ net[i].kind = "put" /\ net[i].phase = "request"
        /\ server' = [server EXCEPT ![net[i].rid] = Merge(@, net[i].body)]
        /\ net' = [net EXCEPT ![i].phase = "response"]
    /\ UNCHANGED <<activeTab, srReports, srFiltered, selectedUserFilter,
                   financialTimeout, notesTimeout, userSteps, unflushed,
                   notesBurst, lastActive, lastCompleted, scVars>>
    /\ AppFrame

\* a plausible slip: the catch block refetches, which rolls the list back
RequestFailsRefetch ==
    /\ NoTimerDue
    /\ \E i \in 1..Len(net) :
        /\ net[i].phase = "request"
        /\ net' = Append(RemoveAt(net, i),
                      [Request("get", net[i].owner, 0, <<>>) EXCEPT !.live = net[i].live])
    /\ UNCHANGED <<server, activeTab, srReports, srFiltered, selectedUserFilter,
                   financialTimeout, notesTimeout, userSteps, unflushed,
                   notesBurst, lastActive, lastCompleted, scVars>>
    /\ AppFrame

\* a request fails (network error, rejection): the catch block of the
\* awaiting function logs it and the function ends
RequestFails ==
    /\ NoTimerDue
    /\ \E i \in 1..Len(net) :
        /\ net[i].phase = "request"
        /\ net' = RemoveAt(net, i)
    /\ UNCHANGED <<server, activeTab, srReports, srFiltered, selectedUserFilter,
                   financialTimeout, notesTimeout, userSteps, unflushed,
                   notesBurst, lastActive, lastCompleted, scVars>>
    /\ AppFrame

\* the awaited PUT resolves: the function goes on with fetchReports(), of
\* the instance that issued the PUT
PutResolves ==
    /\ NoTimerDue
    /\ \E i \in 1..Len(net) :
        /\ net[i].kind = "put" /\ net[i].phase = "response"
        /\ net' = Append(RemoveAt(net, i),
                      [Request("get", net[i].owner, 0, <<>>) EXCEPT !.live = net[i].live])
    /\ UNCHANGED <<server, activeTab, srReports, srFiltered, selectedUserFilter,
                   financialTimeout, notesTimeout, userSteps, unflushed,
                   notesBurst, lastActive, lastCompleted, scVars>>
    /\ AppFrame

\* fetchReports after its await: setReports(activeReports), then the effect
\* on [reports, selectedUserFilter] runs filterReports
FetchReportsResolves ==
    /\ NoTimerDue
    /\ \E i \in 1..Len(net) :
        /\ net[i].kind = "get" /\ net[i].phase = "response"
        /\ net[i].owner = "sr" /\ net[i].live
        /\ net' = RemoveAt(net, i)
        /\ srReports' = ActiveOf(net[i].data)
        /\ lastActive' = [data |-> net[i].data, set |-> srReports']
    /\ srFiltered' = SR_filterReports(srReports', selectedUserFilter)
    /\ notesTimeout' = SyncNotesNode(notesTimeout, srFiltered')
    /\ UNCHANGED <<server, activeTab, selectedUserFilter, financialTimeout,
                   userSteps, unflushed, notesBurst, lastCompleted, scVars>>
    /\ AppFrame

\* fetchCompletedReports after its await: setReports(completedReports), then
\* the effect on [reports, searchClient, searchEmployee] runs filterReports
FetchCompletedResolves ==
    /\ NoTimerDue
    /\ \E i \in 1..Len(net) :
        /\ net[i].kind = "get" /\ net[i].phase = "response"
        /\ net[i].owner = "sc" /\ net[i].live
        /\ net' = RemoveAt(net, i)
        /\ scReports' = CompletedOf(net[i].data)
        /\ lastCompleted' = [data |-> net[i].data, set |-> scReports']
    /\ scInput' = scReports'
    /\ scFiltered' = SC_filterReports(scReports', searchClient, searchEmployee)
    /\ UNCHANGED <<server, activeTab, srReports, srFiltered, selectedUserFilter,
                   financialTimeout, notesTimeout, userSteps, unflushed,
                   notesBurst, lastActive, searchClient, searchEmployee>>
    /\ AppFrame

\* a GET resolves for an instance that has unmounted: its setReports changes
\* nothing
OrphanFetchResolves ==
    /\ NoTimerDue
    /\ \E i \in 1..Len(net) :
        /\ net[i].kind = "get" /\ net[i].phase = "response" /\ ~net[i].live
        /\ net' = RemoveAt(net, i)
    /\ UNCHANGED <<server, activeTab, srReports, srFiltered, selectedUserFilter,
                   financialTimeout, notesTimeout, userSteps, unflushed,
                   notesBurst, lastActive, lastCompleted, scVars>>
    /\ AppFrame

AppNext ==
    \/ SwitchTab
    \/ SetUserFilter
    \/ ClickStatus
    \/ EditTotalCost
    \/ EditPartsCost
    \/ EditAdminNotes
    \/ Tick
    \/ FireFinancial
    \/ FireNotes
    \/ ServerGet
    \/ ServerPut
    \/ RequestFails
    \/ PutResolves
    \/ FetchReportsResolves
    \/ FetchCompletedResolves
    \/ OrphanFetchResolves

(***************************************************************************)
(* The report form of ServiceReports: the photo input.  A payload is the   *)
(* pair <<selection, file>> of the file it was read from.                  *)
(***************************************************************************)
MaxPhotos == 5
MaxFilesPerPick == 3
MaxPicks == 2

\* handlePhotoUpload with n files selected: the test reads photos of the
\* current render; each accepted file gets a FileReader whose onload will
\* append its result
handlePhotoUpload(n) ==
    IF Len(photos) + n > MaxPhotos
    THEN /\ formAlerts' = Append(formAlerts, "Maximum 5 photos allowed")
         /\ UNCHANGED <<photos, photoReaders>>
    ELSE /\ photoReaders' =
                photoReaders \cup {<<photoPicks + 1, k>> : k \in 1..n}
         /\ UNCHANGED <<photos, formAlerts>>

\* onChange of the file input
SelectPhotos ==
    /\ photoPicks < MaxPicks
    /\ \E n \in 1..MaxFilesPerPick : handlePhotoUpload(n)
    /\ photoPicks' = photoPicks + 1
    /\ FormFrame

\* reader.onload of one pending FileReader: setPhotos(prev => [...prev,
\* event.target.result])
PhotoLoaded ==
    /\ \E f \in photoReaders :
        /\ photos' = Append(photos, f)
        /\ photoReaders' = photoReaders \ {f}
    /\ UNCHANGED <<photoPicks, formAlerts>>
    /\ FormFrame

\* removePhoto(index): setPhotos(prev => prev.filter((_, i) => i !== index))
RemovePhoto ==
    /\ \E index \in 1..Len(photos) :
        photos' = SubSeq(photos, 1, index - 1) \o SubSeq(photos, index + 1, Len(photos))
    /\ UNCHANGED <<photoReaders, photoPicks, formAlerts>>
    /\ FormFrame

\* the form as resetForm leaves it, no selection made
FormIdle ==
    /\ photos = <<>>
    /\ photoReaders = {}
    /\ photoPicks = 0
    /\ formAlerts = <<>>

FormInit == FormIdle

FormNext == SelectPhotos \/ PhotoLoaded \/ RemovePhoto

(***************************************************************************)
(* The browser's timer table behind window.financialTimeout and            *)
(* window.notesTimeout.  Spec keeps one slot per class; this part models   *)
(* setTimeout and clearTimeout themselves, so that the number of timers    *)
(* pending per class is something the handlers decide.                     *)
(***************************************************************************)
MaxTimers == 4

\* clearTimeout(id): the timeout with that id is dropped; undefined or the
\* id of a timeout that has run or was cleared changes nothing
clearTimeout(table, id) ==
    IF id = None THEN table ELSE {t \in table : t.id # Val(id)}

\* setTimeout(callback, 1000): a new entry under the next id
setTimeout(table, class, rid, field) ==
    table \cup {[id |-> timerCount + 1, class |-> class, rid |-> rid,
                 field |-> field, left |-> DebounceDelay]}

\* a plausible slip: the handler arms the new timeout without clearing
ScheduleNoClear(table, id, class, rid, field) ==
    setTimeout(table, class, rid, field)

\* clearTimeout(window.xTimeout); window.xTimeout = setTimeout(...)
Schedule(table, id, class, rid, field) ==
    setTimeout(clearTimeout(table, id), class, rid, field)

NoTableTimerDue == \A t \in timerTable : t.left > 0

\* onChange of a cost input of the card of report rid
OnChangeCost ==
    /\ timerCount < MaxTimers
    /\ NoTableTimerDue
    /\ \E rid \in RIDs, field \in {"total_cost", "parts_cost"} :
        timerTable' = Schedule(timerTable, winFinancial, "financial", rid, field)
    /\ winFinancial' = Some(timerCount + 1)
    /\ timerCount' = timerCount + 1
    /\ UNCHANGED winNotes
    /\ TimerFrame

\* onChange of the Admin Notes textarea of the card of report rid
OnChangeNotes ==
    /\ timerCount < MaxTimers
    /\ NoTableTimerDue
    /\ \E rid \in RIDs :
        timerTable' = Schedule(timerTable, winNotes, "notes", rid, "admin_notes")
    /\ winNotes' = Some(timerCount + 1)
    /\ timerCount' = timerCount + 1
    /\ UNCHANGED winFinancial
    /\ TimerFrame

\* time passes while a timeout is pending and none is due
TimerElapse ==
    /\ timerTable # {}
    /\ NoTableTimerDue
    /\ timerTable' = {[t EXCEPT !.left = @ - TickMs] : t \in timerTable}
    /\ UNCHANGED <<winFinancial, winNotes, timerCount>>
    /\ TimerFrame

\* a timeout runs: it leaves the table; the window property keeps its id
TimerRuns ==
    /\ \E t \in timerTable :
        /\ t.left <= 0
        /\ timerTable' = timerTable \ {t}
    /\ UNCHANGED <<winFinancial, winNotes, timerCount>>
    /\ TimerFrame

\* no timeout set and the window properties undefined
TimerIdle ==
    /\ timerTable = {}
    /\ winFinancial = None
    /\ winNotes = None
    /\ timerCount = 0

TimerInit == TimerIdle

TimerNext == OnChangeCost \/ OnChangeNotes \/ TimerElapse \/ TimerRuns

(***************************************************************************)
(* The specifications.  Each one drives its own part of the state and      *)
(* leaves the rest at rest.                                                *)
(***************************************************************************)
(***************************************************************************)
(* ServiceReports.getReportPeriod.  Instants are hours since a midnight    *)
(* UTC; a calendar day is the number of the day in a time zone.            *)
(***************************************************************************)
MaxPeriodReports == 2
HoursPerDay == 24
\* America/Los_Angeles, standard time
LosAngelesOffset == -8

\* Date.prototype.toDateString: the calendar day in the browser's zone
toDateString(t, tz) == (t + tz) \div HoursPerDay

\* moment.utc(date).tz('America/Los_Angeles').format('MM/DD/YYYY')
formatLATime(t) == <<"MM/DD/YYYY", (t + LosAngelesOffset) \div HoursPerDay>>

\* Math.min(...dates), Math.max(...dates) on a non-empty array
MathMin(dates) ==
    CHOOSE m \in {dates[i] : i \in 1..Len(dates)} :
        \A i \in 1..Len(dates) : m <= dates[i]
MathMax(dates) ==
    CHOOSE m \in {dates[i] : i \in 1..Len(dates)} :
        \A i \in 1..Len(dates) : m >= dates[i]

getReportPeriod(dates, tz) ==
    IF Len(dates) = 0 THEN [kind |-> "No reports"]
    ELSE LET minDate == MathMin(dates)
             maxDate == MathMax(dates)
         IN  IF toDateString(minDate, tz) = toDateString(maxDate, tz)
             THEN [kind |-> "date", date |-> formatLATime(minDate)]
             ELSE [kind |-> "range", from |-> formatLATime(minDate),
                   to |-> formatLATime(maxDate)]

\* request dates in the evening and the night of two days, and the zones of
\* a browser in Los Angeles, in London and in Tokyo
PeriodInstants == {30, 47, 49, 54, 57, 80}
BrowserZones == {LosAngelesOffset, 0, 9}
PeriodCollections ==
    UNION {[1..n -> PeriodInstants] : n \in 0..MaxPeriodReports}

PeriodIdle ==
    /\ periodReports = <<>>
    /\ browserTz = LosAngelesOffset
    /\ periodLabel = None

PeriodInit ==
    /\ periodReports \in PeriodCollections
    /\ browserTz \in BrowserZones
    /\ periodLabel = None

\* the header of the reports list is rendered
RenderPeriod ==
    /\ periodLabel = None
    /\ periodLabel' = Some(getReportPeriod(periodReports, browserTz))
    /\ UNCHANGED <<periodReports, browserTz>>
    /\ PeriodFrame

PeriodNext == RenderPeriod

(***************************************************************************)
(* Calendar.  A day of the year stands for the pair (month, day) that keys *)
(* monthData; amounts are in dollar cents.                                 *)
(***************************************************************************)
MaxCalReports == 2
selectedYear == 2024
CalendarDays == {1, 2}

\* report.last_modified && report.total_cost && report.parts_cost
Contributes(report) ==
    /\ report.last_modified # None
    /\ OrZero(report.total_cost) # 0
    /\ OrZero(report.parts_cost) # 0

\* the filter of fetchYearlyData
InSelectedYear(report) ==
    /\ report.status = "completed"
    /\ report.last_modified # None
    /\ Val(report.last_modified).year = selectedYear

\* fetchYearlyData: every day starts at 0, then each report that passes the
\* test adds its profit to the day of its last_modified
fetchYearlyData(data) ==
    LET completedReports == SelectSeq(data, InSelectedYear)
        F[i \in 0..Len(completedReports)] ==
            IF i = 0 THEN [d \in CalendarDays |-> 0]
            ELSE LET report == completedReports[i]
                     day == Val(report.last_modified).day
                 IN  IF Contributes(report) /\ day \in CalendarDays
                     THEN [F[i - 1] EXCEPT ![day] = @ + GrossProfit(report)]
                     ELSE F[i - 1]
    IN  F[Len(completedReports)]

\* calculateYearlyTotal: the sum of the days of monthlyData
calculateYearlyTotal(data) ==
    LET S[days \in SUBSET DOMAIN data] ==
            IF days = {} THEN 0
            ELSE LET d == CHOOSE x \in days : TRUE
                 IN  data[d] + S[days \ {d}]
    IN  S[DOMAIN data]

CalAmounts == {None, Some(0), Some(4000), Some(10000)}
CalStamps ==
    {None, Some([year |-> selectedYear, day |-> 1]),
     Some([year |-> selectedYear, day |-> 2]),
     Some([year |-> selectedYear - 1, day |-> 1])}
CalReportRecords ==
    [status : {"completed", "in_progress"}, last_modified : CalStamps,
     total_cost : CalAmounts, parts_cost : CalAmounts]
CalCollections ==
    UNION {[1..n -> CalReportRecords] : n \in 0..MaxCalReports}

CalIdle ==
    /\ calReports = <<>>
    /\ monthlyData = None
    /\ yearlyTotal = None

CalInit ==
    /\ calReports \in CalCollections
    /\ monthlyData = None
    /\ yearlyTotal = None

\* the GET of fetchYearlyData is answered: setMonthlyData(monthData)
CalFetchResolves ==
    /\ monthlyData = None
    /\ monthlyData' = Some(fetchYearlyData(calReports))
    /\ UNCHANGED <<calReports, yearlyTotal>>
    /\ CalFrame

\* the page is rendered with the data: the yearly total is computed
CalRenderTotal ==
    /\ monthlyData # None
    /\ yearlyTotal = None
    /\ yearlyTotal' = Some(calculateYearlyTotal(Val(monthlyData)))
    /\ UNCHANGED <<calReports, monthlyData>>
    /\ CalFrame

CalNext ==
    \/ CalFetchResolves
    \/ CalRenderTotal

(***************************************************************************)
(* ServiceReports.handleUpdateReport.  The cost inputs hold texts.         *)
(***************************************************************************)
EditCostTexts == {"", "0", "40", "100"}
EditRoles == {"admin", "employee", "none"}

\* parseFloat of the text of a number input
parseFloat(text) ==
    CASE text = "0" -> 0
      [] text = "40" -> 40
      [] text = "100" -> 100

\* a plausible slip: the block of admin fields without its role test
updateDataNoRoleTest(form, role) ==
    LET fields ==
            {"description", "priority", "photos", "employee_notes", "admin_notes"}
                \cup (IF form.totalCost # "" THEN {"total_cost"} ELSE {})
                \cup (IF form.partsCost # "" THEN {"parts_cost"} ELSE {})
                \cup (IF form.totalCost # "" /\ form.partsCost # ""
                      THEN {"gross_profit"} ELSE {})
    IN  [f \in fields |->
            CASE f = "description" -> form.description
              [] f = "priority" -> form.priority
              [] f = "photos" -> form.photos
              [] f = "employee_notes" -> form.employeeNotes
              [] f = "admin_notes" -> form.adminNotes
              [] f = "total_cost" -> parseFloat(form.totalCost)
              [] f = "parts_cost" -> parseFloat(form.partsCost)
              [] f = "gross_profit" ->
                    parseFloat(form.totalCost) - parseFloat(form.partsCost)]

\* the updateData object handleUpdateReport builds: a text that is not
\* empty is truthy, '0' included
updateData(form, role) ==
    LET fields ==
            {"description", "priority", "photos", "employee_notes"}
                \cup (IF role = "admin"
                      THEN {"admin_notes"}
                            \cup (IF form.totalCost # "" THEN {"total_cost"} ELSE {})
                            \cup (IF form.partsCost # "" THEN {"parts_cost"} ELSE {})
                            \cup (IF form.totalCost # "" /\ form.partsCost # ""
                                  THEN {"gross_profit"} ELSE {})
                      ELSE {})
    IN  [f \in fields |->
            CASE f = "description" -> form.description
              [] f = "priority" -> form.priority
              [] f = "photos" -> form.photos
              [] f = "employee_notes" -> form.employeeNotes
              [] f = "admin_notes" -> form.adminNotes
              [] f = "total_cost" -> parseFloat(form.totalCost)
              [] f = "parts_cost" -> parseFloat(form.partsCost)
              [] f = "gross_profit" ->
                    parseFloat(form.totalCost) - parseFloat(form.partsCost)]

EditForms ==
    [description : {"d"}, priority : {"URGENT"}, photos : {<<>>},
     employeeNotes : {"", "e"}, adminNotes : {"", "a"},
     totalCost : EditCostTexts, partsCost : EditCostTexts]

EditIdle ==
    /\ editForm = [description |-> "", priority |-> "", photos |-> <<>>,
                   employeeNotes |-> "", adminNotes |-> "", totalCost |-> "",
                   partsCost |-> ""]
    /\ editRole = "none"
    /\ putBody = None

EditInit ==
    /\ editForm \in EditForms
    /\ editRole \in EditRoles
    /\ putBody = None

\* the edit form is submitted: handleUpdateReport up to its axios.put
handleUpdateReport ==
    /\ putBody = None
    /\ putBody' = Some(updateData(editForm, editRole))
    /\ UNCHANGED <<editForm, editRole>>
    /\ EditFrame

EditNext == handleUpdateReport

vars ==
    <<flagVars, profitVars, scVars, genVars, layVars, appVars, formVars,
      timerVars,
      periodVars,
      calVars,
      editVars>>

FlagIdle ==
    /\ flagReport = [request_date |-> [parses |-> FALSE, ms |-> 0]]
    /\ clock = 0
    /\ flag = None
    /\ flagAt = 0
    /\ overdue = None

ProfitIdle ==
    /\ profitReport = [total_cost |-> None, parts_cost |-> None]
    /\ profitShift = 0
    /\ profitSite = "none"
    /\ profitShown = None
    /\ profitShownShifted = None

ScIdle ==
    /\ scInput = <<>>
    /\ scReports = <<>>
    /\ scFiltered = <<>>
    /\ searchClient = ""
    /\ searchEmployee = <<>>

GenIdle ==
    /\ apiReports = <<>>
    /\ startDate = None
    /\ endDate = None
    /\ selectedClient = ""
    /\ selectedEmployee = ""
    /\ isGenerating = FALSE
    /\ genPc = "idle"
    /\ genClosure = None
    /\ genClicks = 0
    /\ pdfCalls = <<>>
    /\ savedFiles = <<>>
    /\ alerts = <<>>
    /\ genEscaped = FALSE

LayIdle ==
    /\ layN = 0
    /\ layI = 0
    /\ layout = LayoutStart

AppIdle ==
    /\ server = [r \in {} |-> r]
    /\ net = <<>>
    /\ activeTab = "reports"
    /\ srReports = <<>>
    /\ srFiltered = <<>>
    /\ selectedUserFilter = ""
    /\ financialTimeout = None
    /\ notesTimeout = None
    /\ userSteps = 0
    /\ unflushed = [r \in {} |-> r]
    /\ notesBurst = None
    /\ lastActive = [data |-> <<>>, set |-> <<>>]
    /\ lastCompleted = [data |-> <<>>, set |-> <<>>]

FlagSpecInit ==
    FlagInit /\ ProfitIdle /\ ScIdle /\ GenIdle /\ LayIdle /\ AppIdle
        /\ FormIdle /\ TimerIdle
        /\ PeriodIdle
        /\ CalIdle
        /\ EditIdle
SpecFlag == FlagSpecInit /\ [][FlagNext]_vars

ProfitSpecInit ==
    ProfitInit /\ FlagIdle /\ ScIdle /\ GenIdle /\ LayIdle /\ AppIdle
        /\ FormIdle /\ TimerIdle
        /\ PeriodIdle
        /\ CalIdle
        /\ EditIdle
SpecProfit == ProfitSpecInit /\ [][ProfitNext]_vars

FilterSpecInit ==
    FilterInit /\ FlagIdle /\ ProfitIdle /\ GenIdle /\ LayIdle /\ AppIdle
        /\ FormIdle /\ TimerIdle
        /\ PeriodIdle
        /\ CalIdle
        /\ EditIdle
SpecFilter == FilterSpecInit /\ [][FilterNext]_vars

LayoutSpecInit ==
    LayoutInit /\ FlagIdle /\ ProfitIdle /\ ScIdle /\ GenIdle /\ AppIdle
        /\ FormIdle /\ TimerIdle
        /\ PeriodIdle
        /\ CalIdle
        /\ EditIdle
SpecLayout == LayoutSpecInit /\ [][LayoutNext]_vars

PdfSpecInit ==
    GenInit /\ FlagIdle /\ ProfitIdle /\ ScIdle /\ LayIdle /\ AppIdle
        /\ FormIdle /\ TimerIdle
        /\ PeriodIdle
        /\ CalIdle
        /\ EditIdle
SpecPDF == PdfSpecInit /\ [][GenNext]_vars

\* the Reports tab with an answer of at most one report, the awaited GET
\* being settled (answered or failed) in the end
PdfLiveSpecInit ==
    PdfSpecInit /\ Len(apiReports) <= 1
GenSettles ==
    GenerateEmpty \/ GenerateSave \/ GeneratePdfThrows \/ GenerateGetFails
SpecPDFLive == PdfLiveSpecInit /\ [][GenNext]_vars /\ WF_vars(GenSettles)

\* the report form of ServiceReports, open
FormSpecInit ==
    FormInit /\ FlagIdle /\ ProfitIdle /\ ScIdle /\ GenIdle /\ LayIdle /\ AppIdle
        /\ TimerIdle
        /\ PeriodIdle
        /\ CalIdle
        /\ EditIdle
SpecForm == FormSpecInit /\ [][FormNext]_vars

\* the cost inputs and the notes textarea of the cards, and the clock
TimerSpecInit ==
    TimerInit /\ FlagIdle /\ ProfitIdle /\ ScIdle /\ GenIdle /\ LayIdle /\ AppIdle
        /\ FormIdle
        /\ PeriodIdle
        /\ CalIdle
        /\ EditIdle
SpecTimers == TimerSpecInit /\ [][TimerNext]_vars

\* the header of the reports list
PeriodSpecInit ==
    PeriodInit /\ FlagIdle /\ ProfitIdle /\ ScIdle /\ GenIdle /\ LayIdle /\ AppIdle
        /\ FormIdle /\ TimerIdle
        /\ CalIdle
        /\ EditIdle
SpecPeriod == PeriodSpecInit /\ [][PeriodNext]_vars

\* the Profit Calendar
CalSpecInit ==
    CalInit /\ FlagIdle /\ ProfitIdle /\ ScIdle /\ GenIdle /\ LayIdle /\ AppIdle
        /\ FormIdle /\ TimerIdle /\ PeriodIdle
        /\ EditIdle
SpecCalendar == CalSpecInit /\ [][CalNext]_vars

\* the edit form of a report, filled in
EditSpecInit ==
    EditInit /\ FlagIdle /\ ProfitIdle /\ ScIdle /\ GenIdle /\ LayIdle /\ AppIdle
        /\ FormIdle /\ TimerIdle /\ PeriodIdle /\ CalIdle
SpecEdit == EditSpecInit /\ [][EditNext]_vars

\* the application after login: the backend, the Dashboard, the reports and
\* completed tabs
Init ==
    AppInit /\ FlagIdle /\ ProfitIdle /\ GenIdle /\ LayIdle /\ FormIdle /\ TimerIdle
        /\ PeriodIdle
        /\ CalIdle
        /\ EditIdle
Next == AppNext
Spec == Init /\ [][Next]_vars

\* C6: for a valid request_date the flag rendered at time t is ON_TIME
\* (green) exactly when ceil((t - request_date) / 1 day) <= 1, that is when
\* the report is at most one day old, and LATE (red) exactly when it is
\* older; exactly 1 day old is green and exactly 2 days old is red.
C6_FlagRule ==
    (flag # None /\ flagReport.request_date.parses) =>
        LET age == flagAt - flagReport.request_date.ms
        IN  /\ (Val(flag) = GreenFlag) <=> (age <= DayMs)
            /\ (Val(flag) = RedFlag) <=> (age > DayMs)
            /\ (age = DayMs) => Val(flag) = GreenFlag
            /\ (age = 2 * DayMs) => Val(flag) = RedFlag

C6_Witness ==
    /\ flag = Some(GreenFlag)
    /\ flagReport.request_date.parses
    /\ flagAt - flagReport.request_date.ms = DayMs

\* the employee name contains the search text, letter case ignored
ContainsIgnoringCase(name, text) ==
    \E off \in 0..(Len(name) - Len(text)) :
        \A k \in 1..Len(text) : LowerChar(name[off + k]) = LowerChar(text[k])

SelectedByCriteria(r) ==
    /\ searchClient = "" \/ r.client_name = searchClient
    /\ searchEmployee = <<>> \/ ContainsIgnoringCase(r.employee_name, searchEmployee)

\* C7: filteredReports of the Completed view is exactly the subsequence, in
\* input order, of the fetched collection whose client_name equals the
\* selected client (when one is selected) and whose employee_name contains
\* the search text whatever the letter case (when one is typed); empty
\* criteria keep everything, and the fetched collection is left as it was.
C7_FilterExact ==
    /\ scFiltered = SelectSeq(scInput, SelectedByCriteria)
    /\ scReports = scInput
    /\ (searchClient = "" /\ searchEmployee = <<>>) => scFiltered = scInput

C7_Witness ==
    /\ searchClient = "Smith Pool"
    /\ searchEmployee = <<"J", "O">>
    /\ Len(scInput) = 2
    /\ scInput[1].client_name = "Smith Pools"
    /\ scInput[2] = [client_name |-> "Smith Pool", employee_name |-> <<"j", "O", "h">>]
    /\ scFiltered = <<scInput[2]>>

\* the text of total - parts, an absent operand counting 0, written by hand
ExpectedProfitCents(report) ==
    (IF report.total_cost = None THEN 0 ELSE report.total_cost[1])
        - (IF report.parts_cost = None THEN 0 ELSE report.parts_cost[1])

\* C8: wherever a gross profit is displayed it is the text of
\* total_cost - parts_cost with an absent operand counted as 0, and the
\* report with the same amount added to both operands displays the same
\* text.
C8_GrossProfit ==
    /\ profitShown # None =>
            Val(profitShown) = formatCurrency(ExpectedProfitCents(profitReport))
    /\ (profitShown # None /\ profitShownShifted # None) =>
            profitShownShifted = profitShown

C8_Witness ==
    /\ profitSite = "pdf"
    /\ profitReport = [total_cost |-> None, parts_cost |-> Some(123456)]
    /\ profitShift = 100000
    /\ profitShown = Some(<<"-", "1", ",", "2", "3", "4", ".", "5", "6">>)
    /\ profitShownShifted = profitShown

\* the number of containers on each page
PageCounts(pages) == [p \in 1..Len(pages) |-> Len(pages[p])]

\* the container numbers of a document, page after page
RECURSIVE ContainerNumbers(_)
ContainerNumbers(pages) ==
    IF pages = <<>> THEN <<>>
    ELSE [k \in 1..Len(Head(pages)) |-> Head(pages)[k].n]
            \o ContainerNumbers(Tail(pages))

\* C3: seven reports are laid out on exactly three pages holding 3, 3 and 1
\* containers, container k being report k.
C3_SevenReportsThreePages ==
    (layN = 7 /\ layI = layN) =>
        /\ PageCounts(layout.pages) = <<3, 3, 1>>
        /\ ContainerNumbers(layout.pages) = [k \in 1..7 |-> k]

\* the criteria of the Reports tab, written out for one report
PassesCriteria(r, c) ==
    /\ r.status = "completed"
    /\ LET effective ==
               IF r.completion_date = None THEN r.request_date
               ELSE r.completion_date[1]
       IN  /\ Val(c.startDate) * TicksPerDay <= effective
           /\ effective <= Val(c.endDate) * TicksPerDay
    /\ c.selectedClient \in {"", "all"} \/ r.client_name = c.selectedClient
    /\ c.selectedEmployee \in {"", "all"} \/ r.employee_id = c.selectedEmployee

NonePasses(all, c) == \A i \in 1..Len(all) : ~PassesCriteria(all[i], c)

\* C9: when a run of generateReport ends and no report of the answer passes
\* the date, client and employee criteria, generatePDF was not called and
\* nothing was saved, one alert was shown, no exception escaped and
\* isGenerating is false.
C9_EmptyResultNoDocument ==
    [][(genPc = "fetching" /\ genPc' = "idle"
            /\ NonePasses(apiReports, Val(genClosure)))
        => /\ pdfCalls' = pdfCalls
           /\ savedFiles' = savedFiles
           /\ Len(alerts') = Len(alerts) + 1
           /\ ~genEscaped'
           /\ ~isGenerating']_vars

C9_Witness ==
    /\ genPc = "idle"
    /\ genClosure # None
    /\ apiReports # <<>>
    /\ NonePasses(apiReports, Val(genClosure))
    /\ alerts = <<"No completed reports found for the selected criteria">>
    /\ pdfCalls = <<>> /\ savedFiles = <<>>
    /\ ~isGenerating

\* C10: every call of generatePDF receives exactly the reports of the
\* answer, in order, that are completed, whose effective date
\* (completion_date, else request_date) lies between the start instant and
\* the end instant, both included, and that match the selected client and
\* employee when one is selected ('' and 'all' select nothing).
C10_FilterForPdf ==
    \A k \in 1..Len(pdfCalls) :
        /\ pdfCalls[k].reports =
                SelectSeq(apiReports,
                    LAMBDA r : PassesCriteria(r, pdfCalls[k].closure))
        /\ \A i \in 1..Len(pdfCalls[k].reports) :
                pdfCalls[k].reports[i].status = "completed"

C10_Witness ==
    /\ Len(pdfCalls) = 1
    /\ pdfCalls[1].closure.selectedClient = "A"
    /\ pdfCalls[1].closure.selectedEmployee = "e1"
    /\ Len(apiReports) = 2
    /\ apiReports[1].status = "in_progress"
    /\ apiReports[1].client_name = "A" /\ apiReports[1].employee_id = "e1"
    /\ Len(pdfCalls[1].reports) = 1
    /\ pdfCalls[1].reports[1] = apiReports[2]
    /\ apiReports[2].completion_date = Some(pdfCalls[1].endDate * TicksPerDay)

Range(q) == {q[i] : i \in 1..Len(q)}

\* C1: a burst of edits to one report's admin notes, each made before the
\* timer of the previous one ran out and with no other field or report
\* written meanwhile, is followed by exactly one flush PUT, which carries the
\* value of the last edit; while the timer is pending nothing is flushed.
C1_BurstFlushedOnce ==
    (notesBurst # None /\ Val(notesBurst).clean) =>
        IF notesTimeout # None THEN Val(notesBurst).puts = <<>>
        ELSE Val(notesBurst).puts = <<Val(notesBurst).last>>

\* C2: an edit to one cost field leaves the pending flush of the other cost
\* field of the same report in place: every typed cost value that no PUT
\* has carried yet still has its own timer pending (no other report having
\* been edited), so both values reach the backend.
C2_FieldTimersIndependent ==
    \A r \in RIDs, f \in {"total_cost", "parts_cost"} :
        (/\ unflushed[r][f] # None
         /\ \A o \in RIDs \ {r} :
                unflushed[o] = [total_cost |-> None, parts_cost |-> None])
        => /\ financialTimeout # None
           /\ Val(financialTimeout).rid = r
           /\ Val(financialTimeout).field = f
           /\ Val(financialTimeout).value = Val(unflushed[r][f])

\* C4: when the reports tab and the completed tab have handled the same
\* answer of GET /reports, every report of it is in exactly one of the two
\* working sets and the two sets together hold all of it; and the Dashboard
\* never renders both views.
C4_ViewsPartition ==
    /\ (lastActive.data = lastCompleted.data) =>
            /\ \A i \in 1..Len(lastActive.data) :
                    (lastActive.data[i] \in Range(lastActive.set))
                        # (lastActive.data[i] \in Range(lastCompleted.set))
            /\ Range(lastActive.set) \cup Range(lastCompleted.set)
                    = Range(lastActive.data)
            /\ Len(lastActive.set) + Len(lastCompleted.set) = Len(lastActive.data)
    /\ ~(Rendered("ServiceReports") /\ Rendered("ServicesConcluded"))

C4_Witness ==
    /\ Len(lastActive.data) = 2
    /\ lastActive.data = lastCompleted.data
    /\ Len(lastActive.set) = 1
    /\ Len(lastCompleted.set) = 1
    /\ Rendered("ServicesConcluded")

\* C5: every stored report whose status is completed has a completion date.
C5_CompletedHasDate ==
    \A r \in RIDs :
        server[r].status = "completed" => server[r].completion_date # None

\* C11: no page holds more than 3 containers, and placing a report starts a
\* new page exactly when the page already holds 3 containers or the cursor
\* is beyond pageHeight - 100; the report is then the first of the new page,
\* drawn from the top cursor position, and otherwise it joins the current
\* page at the cursor.
C11_PageBreakRule ==
    [][(layI' = layI + 1) =>
            LET wanted == layout.reportsPerPage >= 3
                            \/ layout.yPosition > PageHeight - 100
                last == layout'.pages[Len(layout'.pages)]
            IN  /\ \A p \in 1..Len(layout'.pages) : Len(layout'.pages[p]) <= 3
                /\ (Len(layout'.pages) = Len(layout.pages) + 1) <=> wanted
                /\ (Len(layout'.pages) = Len(layout.pages)) <=> ~wanted
                /\ wanted =>
                        /\ layout'.reportsPerPage = 1
                        /\ Len(last) = 1
                        /\ last[1].top = NextPageTop - 5
                /\ ~wanted =>
                        /\ layout'.reportsPerPage = layout.reportsPerPage + 1
                        /\ Len(last) = layout'.reportsPerPage
                        /\ last[Len(last)].top = layout.yPosition - 5
      ]_vars

C11_Witness ==
    /\ layI = 3
    /\ Len(layout.pages) = 2
    /\ Len(layout.pages[1]) = 2
    /\ Len(layout.pages[2]) = 1
    /\ layout.reportsPerPage = 1

\* C12: the form never holds more than 5 photos, whatever the order of the
\* file selections and of the FileReader callbacks.
C12_AtMostFivePhotos == Len(photos) <= 5

\* C13: generation makes no server round-trip: from the click on the
\* download button to the end of generateReport no request to the backend
\* is awaited.
C13_NoRoundTripWhileGenerating == isGenerating => genPc # "fetching"

\* the PUTs of updateFinancialField and updateAdminNotes
IsFlushPut(q) ==
    q.kind = "put" /\ DOMAIN q.body \subseteq {"total_cost", "parts_cost", "admin_notes"}

CountIn(q, Test(_)) == Cardinality({i \in 1..Len(q) : Test(q[i])})

\* a flush PUT that was awaited is gone and the backend has not answered it
FlushFailed ==
    /\ CountIn(net', LAMBDA q : IsFlushPut(q) /\ q.phase = "request")
            < CountIn(net, LAMBDA q : IsFlushPut(q) /\ q.phase = "request")
    /\ CountIn(net', LAMBDA q : IsFlushPut(q) /\ q.phase = "response")
            = CountIn(net, LAMBDA q : IsFlushPut(q) /\ q.phase = "response")

\* C14: when a flush PUT fails nothing else happens: no request is issued
\* (no retry, no refetch), no timer is armed, the lists of the view keep
\* the optimistic value and the backend keeps what it had.
C14_FailedFlushOnlyLogged ==
    [][FlushFailed =>
            /\ Len(net') = Len(net) - 1
            /\ CountIn(net', LAMBDA q : q.kind = "get")
                    = CountIn(net, LAMBDA q : q.kind = "get")
            /\ UNCHANGED <<server, srReports, srFiltered, financialTimeout,
                           notesTimeout>>
      ]_vars

C14_Witness ==
    /\ activeTab = "reports"
    /\ net = <<>>
    /\ financialTimeout = None /\ notesTimeout = None
    /\ unflushed[1].total_cost = None
    /\ 1 \in Ids(srFiltered)
    /\ ById(srFiltered, 1).total_cost = Some(5)
    /\ server[1].total_cost = None

\* an awaited GET /reports is gone and the backend has not answered it
FetchFailed ==
    /\ CountIn(net', LAMBDA q : q.kind = "get" /\ q.phase = "request")
            < CountIn(net, LAMBDA q : q.kind = "get" /\ q.phase = "request")
    /\ CountIn(net', LAMBDA q : q.kind = "get" /\ q.phase = "response")
            = CountIn(net, LAMBDA q : q.kind = "get" /\ q.phase = "response")

\* C15: a failed GET /reports leaves reports and filteredReports of the
\* views as they were and the user is shown a notification.
C15_FailedFetchNotifies ==
    [][FetchFailed =>
            /\ UNCHANGED <<srReports, srFiltered, scReports, scFiltered>>
            /\ formAlerts' # formAlerts
      ]_vars

\* the timer t is pending when ServiceReports unmounts and is still pending,
\* with the same report, field, value and time left, afterwards
SurvivesUnmount(t, after) ==
    t # None =>
        /\ after # None
        /\ Val(after).rid = Val(t).rid /\ Val(after).field = Val(t).field
        /\ Val(after).value = Val(t).value /\ Val(after).left = Val(t).left

\* the timer of an unmounted view runs out: its PUT is the request added
FiresItsPut(t, after, body) ==
    (t # None /\ ~Val(t).live /\ after = None) =>
        /\ Val(t).left <= 0
        /\ Len(net') = Len(net) + 1
        /\ net'[Len(net')].kind = "put" /\ net'[Len(net')].phase = "request"
        /\ net'[Len(net')].rid = Val(t).rid
        /\ net'[Len(net')].body = body

PendingOfClass(class) == {t \in timerTable : t.class = class}

\* C17: at most one timeout is pending for the financial class and at most
\* one for the notes class, whatever reports and fields were edited; the
\* one pending, if any, is the one the window property names.
C17_OneTimerPerClass ==
    /\ Cardinality(PendingOfClass("financial")) <= 1
    /\ Cardinality(PendingOfClass("notes")) <= 1
    /\ \A t \in PendingOfClass("financial") : winFinancial = Some(t.id)
    /\ \A t \in PendingOfClass("notes") : winNotes = Some(t.id)

\* three edits in a row (two cost fields of two reports, then notes): one
\* timeout pending per class
C17_Witness ==
    /\ timerCount >= 3
    /\ Cardinality(PendingOfClass("financial")) = 1
    /\ Cardinality(PendingOfClass("notes")) = 1
    /\ \E t \in PendingOfClass("financial") : t.id >= 2 /\ t.left < DebounceDelay

\* the order reported < scheduled < in_progress < completed
StatusRank(status) ==
    CASE status = "reported" -> 0
      [] status = "scheduled" -> 1
      [] status = "in_progress" -> 2
      [] status = "completed" -> 3

\* C18: no write ever lowers the status of a stored report.
C18_StatusNeverLowered ==
    [][\A r \in RIDs :
            StatusRank(server'[r].status) >= StatusRank(server[r].status)]_vars

\* C19: a photo that pdf.addImage throws on is skipped and nothing else is
\* lost: every call of generatePDF whose reports all have a priority ends in
\* one saved file that holds a container for each report of the call, in
\* each container exactly the photos among the first four whose payload
\* embeds (those after a malformed one included), one warning per malformed
\* photo among the first four, and a footer on every page.
C19_BadPhotoSkipped ==
    \A k \in 1..Len(pdfCalls) :
        LET reports == pdfCalls[k].reports
        IN  (\A i \in 1..Len(reports) : reports[i].priority # None) =>
                \E n \in 1..Len(savedFiles) :
                    LET f == savedFiles[n]
                    IN  /\ f.call = k
                        /\ \A m \in 1..Len(savedFiles) :
                                savedFiles[m].call = k => m = n
                        /\ \A p \in 1..Len(f.pages) :
                                \A b \in 1..Len(f.pages[p]) :
                                    f.pages[p][b].n \in 1..Len(reports)
                        /\ \A i \in 1..Len(reports) :
                                /\ \E p \in 1..Len(f.pages) :
                                        \E b \in 1..Len(f.pages[p]) :
                                            f.pages[p][b].n = i
                                /\ f.photos[i] =
                                        {j \in 1..4 :
                                            /\ j <= Len(reports[i].photos)
                                            /\ reports[i].photos[j] = "ok"}
                                /\ f.warnings[i] =
                                        {j \in 1..4 :
                                            /\ j <= Len(reports[i].photos)
                                            /\ reports[i].photos[j] = "bad"}
                        /\ f.footers = 1..Len(f.pages)
                        /\ Len(f.pages) >= 1

C19_Witness ==
    /\ Len(pdfCalls) = 1
    /\ Len(savedFiles) = 1
    /\ Len(pdfCalls[1].reports) = 2
    /\ pdfCalls[1].reports[1].photos = <<"ok", "bad", "ok", "ok", "bad">>
    /\ pdfCalls[1].reports[2].photos = <<>>
    /\ savedFiles[1].photos[1] = {1, 3, 4}
    /\ savedFiles[1].warnings[1] = {2}
    /\ Len(savedFiles[1].pages[1]) = 2
    /\ alerts = <<>>
    /\ ~isGenerating

\* C20: the step in which generatePDF throws while drawing a report (a
\* report without a priority) writes no file, shows exactly the alert
\* 'Failed to generate report', ends generateReport with the busy flag
\* cleared and lets no exception escape; no file of that call ever exists.
C20_FailureAlertsNoFile ==
    [][(genPc = "fetching" /\ Len(pdfCalls') = Len(pdfCalls) + 1
            /\ \E i \in 1..Len(pdfCalls'[Len(pdfCalls')].reports) :
                    pdfCalls'[Len(pdfCalls')].reports[i].priority = None)
        => /\ savedFiles' = savedFiles
           /\ \A n \in 1..Len(savedFiles) :
                    savedFiles[n].call # Len(pdfCalls')
           /\ alerts' = Append(alerts, "Failed to generate report")
           /\ ~genEscaped'
           /\ ~isGenerating'
           /\ genPc' = "idle"]_vars

C20_Witness ==
    /\ Len(pdfCalls) = 1
    /\ Len(pdfCalls[1].reports) = 2
    /\ pdfCalls[1].reports[1].priority # None
    /\ pdfCalls[1].reports[2].priority = None
    /\ savedFiles = <<>>
    /\ alerts = <<"Failed to generate report">>
    /\ genPc = "idle"
    /\ ~isGenerating
    /\ ~genEscaped

\* C21: the label is 'No reports' for an empty set; otherwise it is the
\* formatted minimum request_date alone when minimum and maximum format to
\* the same date, and the range of the two formatted dates otherwise, so a
\* range never shows the same date twice.
C21_PeriodLabel ==
    periodLabel # None =>
        LET label == Val(periodLabel)
            days == {(periodReports[i] - 8) \div 24 : i \in 1..Len(periodReports)}
            lo == CHOOSE d \in days : \A e \in days : d <= e
            hi == CHOOSE d \in days : \A e \in days : d >= e
        IN  IF periodReports = <<>> THEN label = [kind |-> "No reports"]
            ELSE IF lo = hi
                 THEN label = [kind |-> "date", date |-> <<"MM/DD/YYYY", lo>>]
                 ELSE /\ label = [kind |-> "range",
                                  from |-> <<"MM/DD/YYYY", lo>>,
                                  to |-> <<"MM/DD/YYYY", hi>>]
                      /\ label.from # label.to

C23_StatusChangeKeepsNotes ==
    [][\A rid \in RIDs :
            server'[rid].status # server[rid].status =>
                /\ server'[rid].admin_notes = server[rid].admin_notes
                /\ server'[rid].completion_date = server[rid].completion_date]_vars

\* C24: an optimistic edit stays visible while its flush is pending: as long
\* as the timer of a cost edit has not fired and the report is in the list of
\* the reports tab, the card shows the typed value for that field.
C24_OptimisticEditVisible ==
    (/\ financialTimeout # None
     /\ activeTab = "reports"
     /\ Val(financialTimeout).live
     /\ Val(financialTimeout).rid \in Ids(srFiltered))
    => ById(srFiltered, Val(financialTimeout).rid)[Val(financialTimeout).field]
            = Some(Val(financialTimeout).value)

\* C25: the Calendar's amount of a day is the sum, over the completed
\* reports last modified on that day of the selected year, of total_cost -
\* parts_cost with an absent or zero operand counted as 0, and the yearly
\* total is the sum of the days.
C25_CalendarProfit ==
    LET Profit(i) ==
            (IF calReports[i].total_cost \in {None, Some(0)} THEN 0
             ELSE Val(calReports[i].total_cost))
            - (IF calReports[i].parts_cost \in {None, Some(0)} THEN 0
               ELSE Val(calReports[i].parts_cost))
        OfDay(d) ==
            {i \in 1..Len(calReports) :
                /\ calReports[i].status = "completed"
                /\ calReports[i].last_modified = Some([year |-> 2024, day |-> d])}
        Sum[s \in SUBSET (1..Len(calReports))] ==
            IF s = {} THEN 0
            ELSE LET i == CHOOSE x \in s : TRUE IN Profit(i) + Sum[s \ {i}]
    IN  /\ monthlyData # None =>
            \A d \in {1, 2} : Val(monthlyData)[d] = Sum[OfDay(d)]
        /\ yearlyTotal # None =>
            Val(yearlyTotal) = Sum[OfDay(1) \cup OfDay(2)]

C27_ContainersInsidePage ==
    \A p \in 1..Len(layout.pages) :
        LET boxes == layout.pages[p]
        IN  /\ \A b \in 1..Len(boxes) :
                    /\ boxes[b].top >= 0
                    /\ boxes[b].height = 85
                    /\ boxes[b].top + boxes[b].height <= 297 - 5
            /\ \A b, c \in 1..Len(boxes) :
                    b < c => boxes[b].top + boxes[b].height <= boxes[c].top

C27_Witness ==
    /\ layI = 3
    /\ Len(layout.pages) = 2
    /\ Len(layout.pages[1]) = 2
    /\ layout.pages[1][1].top = 40
    /\ layout.pages[1][2].top = 192
    /\ layout.pages[2][1].top = 15

\* C28: on the same report at the same time isReportOverdue is true exactly
\* when getReportFlag gives the red flag, and for a request_date that parses
\* getReportFlag gives the green or the red flag, never null.
C28_OverdueAgreesWithFlag ==
    flag # None =>
        /\ overdue # None
        /\ (Val(overdue) = TRUE) <=> (Val(flag) = "red")
        /\ flagReport.request_date.parses => Val(flag) \in {"green", "red"}

C28_Witness ==
    /\ flag = Some(RedFlag)
    /\ overdue = Some(TRUE)
    /\ flagReport.request_date.parses
    /\ flagAt - flagReport.request_date.ms = DayMs + 1

\* C29: the body of the PUT of an edit holds admin_notes, total_cost,
\* parts_cost or gross_profit only when the user's role is admin, and
\* gross_profit only when both cost inputs were filled in, its value being
\* the total cost minus the parts cost of the same body.
C29_AdminFieldsOnlyForAdmin ==
    putBody # None =>
        LET body == Val(putBody)
            adminOnly == {"admin_notes", "total_cost", "parts_cost", "gross_profit"}
        IN  /\ (DOMAIN body \cap adminOnly # {}) => editRole = "admin"
            /\ {"description", "priority", "photos", "employee_notes"}
                    \subseteq DOMAIN body
            /\ "gross_profit" \in DOMAIN body =>
                    /\ editForm.totalCost # "" /\ editForm.partsCost # ""
                    /\ {"total_cost", "parts_cost"} \subseteq DOMAIN body
                    /\ body["gross_profit"] =
                            body["total_cost"] - body["parts_cost"]

C29_Witness ==
    /\ putBody # None
    /\ editRole = "admin"
    /\ editForm.totalCost = "100" /\ editForm.partsCost = "40"
    /\ DOMAIN Val(putBody) =
            {"description", "priority", "photos", "employee_notes",
             "admin_notes", "total_cost", "parts_cost", "gross_profit"}
    /\ Val(putBody)["gross_profit"] = 60

\* C30: whenever isGenerating is true it becomes false again; every step
\* that ends a run of generateReport leaves it false; and a click with a
\* date missing changes neither isGenerating nor the request state, it only
\* shows its alert.
C30_GeneratingClears ==
    /\ isGenerating ~> ~isGenerating
    /\ [][(genPc = "fetching" /\ genPc' = "idle") => ~isGenerating']_vars
    /\ [][(/\ genClicks' = genClicks + 1
           /\ startDate = None \/ endDate = None)
            => /\ ~isGenerating /\ ~isGenerating'
               /\ genPc = "idle" /\ genPc' = "idle"
               /\ pdfCalls' = pdfCalls /\ savedFiles' = savedFiles
               /\ alerts' = Append(alerts,
                        "Please select both start and end dates")]_vars

C30_Witness ==
    /\ genClicks = 2
    /\ ~isGenerating
    /\ genPc = "idle"
    /\ Len(pdfCalls) = 1 /\ Len(savedFiles) = 1
    /\ alerts = <<"Failed to generate report">>

=============================================================================
